---- MODULE Spec2Model ----
(***************************************************************************)
(* Verification model of fytok: the Tokamak orchestrator's Picard loop     *)
(* (python/fytok/Tokamak.py) and the BVP transport solver                  *)
(* (python/fymodules/transport/core_transport_solver/bvp_solver2.py).      *)
(***************************************************************************)
EXTENDS Integers, Sequences, FiniteSets, TLC

(***************************************************************************)
(* Bounds of the model.                                                    *)
(***************************************************************************)
MaxIters == 3
MaxProfile == 2
MaxResidual == 2
MaxTolerance == 2
MaxSteps == 2
MaxEqUpdates == 1
NSources == 2
NTransports == 2

(***************************************************************************)
(* Values.                                                                 *)
(***************************************************************************)
\* Python None for a profile reference
None == 0 - 1
\* iter_count before the for statement has bound it
Unbound == 0 - 1
\* contents of a CoreProfiles object, abstracted to a small integer
Profiles == 0 .. MaxProfile
\* what Tokamak._cache.core_profiles holds
CacheProfile == 0
Residuals == 0 .. MaxResidual
Tolerances == 1 .. MaxTolerance
IterArgs == 0 .. MaxIters

VARIABLES
    \* ---- Tokamak (python/fytok/Tokamak.py) ----
    pc,                  \* position inside Tokamak.update
    self_core_profiles,  \* Tokamak._core_profiles
    max_iters,           \* argument of update
    tolerance,           \* argument of update
    iter_count,          \* loop variable of update
    convergence,         \* local of update
    core_profiles_prev,  \* local of update
    core_profiles_next,  \* local of update
    src_i,               \* sources already refreshed in this iteration
    trans_i,             \* transport models already refreshed in this iteration
    residual,            \* residual of the solver call of this iteration
    raised,              \* exception that ended the call, "none" otherwise
    eq_updates,          \* number of Equilibrium.update calls so far
    steps,               \* update calls made so far
    \* ---- history of the current update call ----
    snapshot,            \* core_profiles_prev as selected at lines 163-168
    stored_at_entry,     \* Tokamak._core_profiles when update was entered
    ym_solver,           \* first argument of the latest transport.update call
    solver_calls,        \* transport.update calls of this update call
    next_writes,         \* writes to core_profiles_next in this iteration
    met_tol,             \* some iteration of this call had residual < tolerance
    eq_at_iter,          \* eq_updates when the current iteration began
    \* ---- one boundary-condition evaluation (bvp_solver2.py) ----
    bcq,                 \* the call: equation kind, bc, Ya and Yb entries
    bcr,                 \* its result, Pending before the call
    \* ---- one CoreTransportSolverBVP2.solve call (bvp_solver2.py) ----
    spc,                 \* position inside solve
    quasi_neutral,       \* argument of solve
    dt,                  \* argument of solve
    ions,                \* core_profiles_prev.profiles_1d.ion
    bcs,                 \* identifier.index of self.boundary_conditions_1d.*
    glob,                \* set by update_global_variable
    sys,                 \* var_list, Y0, eq_list, bc_list of create_solver_*
    sol,                 \* result of solve_bvp
    evals,               \* what func and bc_func returned inside solve_bvp
    slice_next,          \* profiles written to core_profiles_next
    s_raised,            \* exception that ended solve, "none" otherwise
    strace,              \* positions solve has passed through
    \* ---- one call on the flux-surface geometry of an equilibrium ----
    \* ---- (MagneticCoordSystem.py, plugins/equilibrium/eq_analyze.py) ----
    impl,                \* the class: MagneticCoordSystem or MagneticSurfaceAnalyze
    found,               \* what find_critical_points yields: (r, z, psi, D)
    eop,                 \* the member that is called
    o_point,             \* argument o_point of find_surface
    psi,                 \* argument psi of find_surface with its contours
    ctor,                \* arguments fpol and psi_norm of __init__
    crit,                \* cache of the cached_property critical_points
    eres,                \* result of the call, EPending before it
    fs,                  \* the generator find_surface: level, results, error
    \* ---- the caches of an Equilibrium (modules/transport/Equilibrium.py) ----
    generation,          \* number of the psi(R, Z) the equilibrium holds now
    cached,              \* per cached_property: the psi its value was computed from
    c_raised             \* exception that ended the last update, "none" otherwise

tokVars == <<pc, self_core_profiles, max_iters, tolerance, iter_count,
             convergence, core_profiles_prev, core_profiles_next, src_i,
             trans_i, residual, raised, eq_updates, steps>>

histVars == <<snapshot, stored_at_entry, ym_solver, solver_calls,
              next_writes, met_tol, eq_at_iter>>

bcVars == <<bcq, bcr>>

solveVars == <<spc, quasi_neutral, dt, ions, bcs, glob, sys, sol, evals,
               slice_next, s_raised, strace>>

eqVars == <<impl, found, eop, o_point, psi, ctor, crit, eres, fs>>

cacheVars == <<generation, cached, c_raised>>

vars == <<tokVars, histVars, bcVars, solveVars, eqVars, cacheVars>>

(***************************************************************************)
(* Tokamak.__init__                                                        *)
(***************************************************************************)
TokInit ==
    /\ pc = "idle"
    /\ self_core_profiles = None
    /\ max_iters = 1
    /\ tolerance = 1
    /\ iter_count = Unbound
    /\ convergence = FALSE
    /\ core_profiles_prev = None
    /\ core_profiles_next = None
    /\ src_i = 0
    /\ trans_i = 0
    /\ residual = 0
    /\ raised = "none"
    /\ eq_updates = 0
    /\ steps = 0
    /\ snapshot = None
    /\ stored_at_entry = None
    /\ ym_solver = None
    /\ solver_calls = 0
    /\ next_writes = 0
    /\ met_tol = FALSE
    /\ eq_at_iter = 0

(***************************************************************************)
(* Boundary conditions: bc_current, bc_particle, bc_energy.                *)
(* A call returns the pair (axis residual, edge residual) or raises.       *)
(***************************************************************************)
\* identifier.index of a boundary condition: the taxonomy 1..6
BcTypes == 1 .. 6
EquationKinds == {"current", "particle", "energy"}
\* small values for y, g and the entries of bc.value
MaxValue == 1
Values == 0 .. MaxValue

\* mu_0 and fpol[-1] of the Ip boundary condition, in model units
Globals == [mu_0 |-> 2, fpol_b |-> 1]

BcRaise(e) == [err |-> e, axis |-> 0, edge |-> 0]

\* float((u0*ya + v0*ga - w0)), float((u1*yb + v1*gb - w1))
BcReturn(u0, v0, w0, ya, ga, u1, v1, w1, yb, gb) ==
    [err |-> "none",
     axis |-> u0 * ya + v0 * ga - w0,
     edge |-> u1 * yb + v1 * gb - w1]

\* lines 162-201.  Index 3 evaluates d(1.0), and no d is defined: it raises.
bc_current(ya, ga, yb, gb, bc) ==
    IF bc.index = 1
    THEN BcReturn(0, 1, 0, ya, ga, 1, 0, bc.value[1], yb, gb)
    ELSE IF bc.index = 2
    THEN BcReturn(0, 1, 0, ya, ga,
                  0, 1, (Globals.mu_0 * bc.value[1]) \div Globals.fpol_b, yb, gb)
    ELSE IF bc.index = 3
    THEN BcRaise("NameError: d")
    ELSE IF bc.index = 5
    THEN BcReturn(0, 1, 0, ya, ga, bc.value[2], bc.value[1], bc.value[3], yb, gb)
    ELSE BcRaise("NotImplementedError")

\* lines 259-271
bc_particle(ya, ga, yb, gb, bc) ==
    IF bc.index = 1
    THEN BcReturn(0, 1, 0, ya, ga, 1, 0, bc.value[1], yb, gb)
    ELSE BcRaise("NotImplementedError")

\* lines 342-359
bc_energy(ya, ga, yb, gb, bc) ==
    IF bc.index = 1
    THEN BcReturn(0, 1, 0, ya, ga, 1, 0, bc.value[1], yb, gb)
    ELSE BcRaise("NotImplementedError")

\* the bc function of an equation kind
BcApply(kind, ya, ga, yb, gb, bc) ==
    IF kind = "current" THEN bc_current(ya, ga, yb, gb, bc)
    ELSE IF kind = "particle" THEN bc_particle(ya, ga, yb, gb, bc)
    ELSE bc_energy(ya, ga, yb, gb, bc)

Pending == [err |-> "pending", axis |-> 0, edge |-> 0]

BcQueries ==
    [kind : EquationKinds,
     bc : [index : BcTypes, value : [1 .. 3 -> Values]],
     ya : Values, ga : Values, yb : Values, gb : Values]

BcRest ==
    /\ bcq = [kind |-> "current", bc |-> [index |-> 1, value |-> <<0, 0, 0>>],
              ya |-> 0, ga |-> 0, yb |-> 0, gb |-> 0]
    /\ bcr = Pending

(***************************************************************************)
(* Inputs of CoreTransportSolverBVP2.solve.                                *)
(***************************************************************************)
IonD == [label |-> "D", z |-> 1, is_impurity |-> FALSE]
IonT == [label |-> "T", z |-> 1, is_impurity |-> FALSE]
IonBe == [label |-> "Be", z |-> 4, is_impurity |-> TRUE]
IonHe == [label |-> "He", z |-> 2, is_impurity |-> FALSE]

MaxIons == 2

AllIonLists ==
    {<<>>, <<IonD>>, <<IonBe>>, <<IonHe>>, <<IonD, IonT>>, <<IonD, IonBe>>,
     <<IonBe, IonD>>, <<IonD, IonHe>>, <<IonD, IonT, IonBe>>,
     <<IonD, IonBe, IonT>>, <<IonD, IonHe, IonBe>>}

IonLists == {l \in AllIonLists : Len(l) <= MaxIons}

QuasiNeutralArgs == {"electrons", "ion"}

\* dt of solve: None, 0 or a positive step
MaxDt == 1
DtArgs == {None} \cup (0 .. MaxDt)

BcIndexSets ==
    [current : BcTypes, e_particles : BcTypes, e_energy : BcTypes,
     ion_energy : BcTypes]

\* rho_tor_norm of the previous profiles, and the refined mesh solve_bvp may
\* return, both scaled to integers
MeshPrev == <<0, 2, 4>>
MeshRefined == <<0, 1, 2, 3, 4>>

(***************************************************************************)
(* update_global_variable, lines 638-643: the time step and its inverse.   *)
(* equilibrium_prev is not given, so it is equilibrium_next and the time   *)
(* difference is 0.  The inverse is kept as <<numerator, denominator>>.    *)
(***************************************************************************)
\* math.isclose(a, b) with its defaults rel_tol = 1e-09 and abs_tol = 0.0,
\* on the integers of the model
isclose(a, b) == a = b

\* as update_global_variable, but the inverse is taken of every time step
update_global_variable_divides(d) ==
    LET tau == IF d # None THEN d ELSE 0
    IN [tau |-> tau, inv_tau |-> <<1, tau>>]

update_global_variable(d) ==
    LET tau == IF d # None THEN d ELSE 0
    IN [tau |-> tau,
        inv_tau |-> IF isclose(tau, 0) THEN <<0, 1>> ELSE <<1, tau>>]

\* the term of dg that holds the previous profile ym: the time derivative
TimeDerivative == "(a*y - b*ym)*inv_tau"

\* the terms that make up dg in transp_current (lines 137-150),
\* transp_particle (lines 244-249) and transp_energy (lines 327-333): the
\* source S, and the terms added when inv_tau is not close to 0
transp_terms(kind, inv_tau) ==
    IF isclose(inv_tau[1], 0) THEN {"S"}
    ELSE CASE kind = "current" ->
                {"S", TimeDerivative, "conductivity_parallel*Qimp_k_ns*y",
                 "dC/dx*y", "C*dy"}
           [] kind = "particle" ->
                {"S", TimeDerivative, "vpr*k_rho_bdry", "d(vpr*x*k_phi)/dx*y",
                 "vpr*x*k_phi*dy"}
           [] kind = "energy" ->
                {"S", TimeDerivative, "vpr5_3*Qimp_k_ns*y",
                 "d(vpr*(3/4)*k_phi*x*density)/dx*y",
                 "vpr*(3/4)*k_phi*x*density*dy"}

NoGlobals == [tau |-> 0, inv_tau |-> <<0, 1>>]

(***************************************************************************)
(* create_solver_electrons and create_solver_ion.  An equation is added    *)
(* with the row offset _idx = len(Y0) at the time it is added; its two     *)
(* rows of the initial guess are the previous profile and zeros.           *)
(***************************************************************************)
EmptySystem == [var_list |-> <<>>, Y0 |-> <<>>, eq_list |-> <<>>, bc_list |-> <<>>]

Zeros == <<"zeros">>

\* as AddEquation, but the row of zeros for the flux is not appended to Y0
AddEquation_one_row(s, kind, var, ym, coeff, source, dens, bcpath) ==
    [var_list |-> Append(s.var_list, var),
     Y0 |-> s.Y0 \o <<ym>>,
     eq_list |-> Append(s.eq_list,
                        [kind |-> kind, idx |-> Len(s.Y0), ym |-> ym,
                         coeff |-> coeff, source |-> source, density |-> dens]),
     bc_list |-> Append(s.bc_list,
                        [kind |-> kind, idx |-> Len(s.Y0), bc |-> bcpath])]

AddEquation(s, kind, var, ym, coeff, source, dens, bcpath) ==
    [var_list |-> Append(s.var_list, var),
     Y0 |-> s.Y0 \o <<ym, Zeros>>,
     eq_list |-> Append(s.eq_list,
                        [kind |-> kind, idx |-> Len(s.Y0), ym |-> ym,
                         coeff |-> coeff, source |-> source, density |-> dens]),
     bc_list |-> Append(s.bc_list,
                        [kind |-> kind, idx |-> Len(s.Y0), bc |-> bcpath])]

\* density and g_density of transp_energy: the rows of Y they are read from,
\* the ratio z / z_total they are scaled with, and the type of the object the
\* expression calls as _n_imp(x) ("none" when it calls nothing)
NoDensity == [rows |-> <<>>, z |-> 0, z_total |-> 0, n_imp_call |-> "none"]

\* lines 457 and 539: n_imp = sum([... for ion in ions if ion.is_impurity]);
\* the sum of an empty list is the int 0, otherwise a Function
n_imp(l) ==
    IF \E i \in 1 .. Len(l) : l[i].is_impurity THEN "Function" ELSE "int"

RECURSIVE SumZ(_, _)
\* sum([ion.z for ion in ions if not ion.is_impurity]), from position i
SumZ(l, i) ==
    IF i > Len(l) THEN 0
    ELSE (IF l[i].is_impurity THEN 0 ELSE l[i].z) + SumZ(l, i + 1)

\* lines 385-411 and 508-534: the current equation
AddCurrent(s) ==
    AddEquation(s, "current", <<"psi">>, <<"psi">>,
                <<"conductivity_parallel">>, <<"j_parallel">>, NoDensity,
                <<"current">>)

RECURSIVE ElectronsIons(_, _, _, _)
\* lines 461-489: one temperature equation for each ion that is no impurity
ElectronsIons(s, l, i, ne_idx) ==
    IF i > Len(l) THEN s
    ELSE IF l[i].is_impurity THEN ElectronsIons(s, l, i + 1, ne_idx)
    ELSE ElectronsIons(
           AddEquation(s, "energy",
                       <<"ion", l[i].label, "temperature">>,
                       <<"ion", l[i].label, "temperature">>,
                       <<"ion", l[i].label, "energy">>,
                       <<"ion", l[i].label, "energy">>,
                       [rows |-> <<ne_idx, ne_idx + 1>>, z |-> l[i].z,
                        z_total |-> SumZ(l, 1), n_imp_call |-> n_imp(l)],
                       <<"ion", l[i].label, "energy">>),
           l, i + 1, ne_idx)

\* lines 372-493
create_solver_electrons(l) ==
    LET s1 == AddCurrent(EmptySystem)
        ne_idx == Len(s1.Y0)
        s2 == AddEquation(s1, "particle",
                          <<"electrons", "density">>,
                          <<"electrons", "density">>,
                          <<"electrons", "particles">>,
                          <<"electrons", "particles">>,
                          NoDensity,
                          <<"electrons", "particles">>)
        s3 == AddEquation(s2, "energy",
                          <<"electrons", "temperature">>,
                          <<"electrons", "temperature">>,
                          <<"electrons", "energy">>,
                          <<"electrons", "energy">>,
                          [rows |-> <<Len(s2.Y0) - 2, Len(s2.Y0) - 1>>,
                           z |-> 1, z_total |-> 1, n_imp_call |-> "none"],
                          <<"electrons", "energy">>)
    IN ElectronsIons(s3, l, 1, ne_idx)

RECURSIVE IonIons(_, _, _)
\* lines 546-591: a density and a temperature equation for each ion that is
\* no impurity; the density equation is built from the electrons' profile,
\* coefficients, source and boundary condition
IonIons(s, l, i) ==
    IF i > Len(l) THEN s
    ELSE IF l[i].is_impurity THEN IonIons(s, l, i + 1)
    ELSE LET sd == AddEquation(s, "particle",
                               <<"ion", l[i].label, "density">>,
                               <<"electrons", "density">>,
                               <<"electrons", "particles">>,
                               <<"electrons", "particles">>,
                               NoDensity,
                               <<"electrons", "particles">>)
             st == AddEquation(sd, "energy",
                               <<"ion", l[i].label, "temperature">>,
                               <<"ion", l[i].label, "temperature">>,
                               <<"ion", l[i].label, "energy">>,
                               <<"ion", l[i].label, "energy">>,
                               [rows |-> <<Len(sd.Y0) - 2, Len(sd.Y0) - 1>>,
                                z |-> 1, z_total |-> 1, n_imp_call |-> "none"],
                               <<"ion", l[i].label, "energy">>)
         IN IonIons(st, l, i + 1)

\* rows of the ion densities, ion_list of lines 543-549
IonRows(s) ==
    LET dens == SelectSeq(s.eq_list, LAMBDA e : e.kind = "particle")
    IN [k \in 1 .. Len(dens) |-> dens[k].idx]

\* lines 495-622
create_solver_ion(l) ==
    LET s1 == IonIons(AddCurrent(EmptySystem), l, 1)
    IN AddEquation(s1, "energy",
                   <<"electrons", "temperature">>,
                   <<"electrons", "temperature">>,
                   <<"electrons", "energy">>,
                   <<"electrons", "energy">>,
                   [rows |-> IonRows(s1), z |-> 1, z_total |-> 1,
                    n_imp_call |-> "none"],
                   <<"electrons", "energy">>)

\* keyword-only parameters without default of create_solver_electrons
\* (lines 373-375) and of create_solver_ion (lines 496-498)
RequiredKw == {"core_profiles_prev_1d", "core_transport_1d", "core_sources_1d"}

\* keywords solve passes to create_solver_electrons (lines 714-719)
ElectronsCallKw == {"core_profiles_prev_1d", "core_transport_1d", "core_sources_1d", "hyper_diff"}

\* keywords solve passes to create_solver_ion (lines 721-726)
IonCallKw == {"core_profiles_1d", "core_transport_1d", "core_sources_1d", "hyper_diff"}

\* binding of a call: a required keyword that is not passed is a TypeError
MissingKw(required, passed) == required \ passed

(***************************************************************************)
(* bc_func of solve, lines 732-733: the boundary conditions are evaluated  *)
(* in the order of bc_list; the first one that raises ends solve_bvp.      *)
(***************************************************************************)
BcIndexOf(b, path) ==
    IF path = <<"current">> THEN b.current
    ELSE IF path = <<"electrons", "particles">> THEN b.e_particles
    ELSE IF path = <<"electrons", "energy">> THEN b.e_energy
    ELSE b.ion_energy

\* Ya and Yb handed to bc_func: row r of Ya holds r + 1, Yb holds zeros
YaRow(r) == r + 1

NoRows == [err |-> "none", rows |-> <<>>]

RECURSIVE bc_func(_, _, _)
\* sum([list(bc(Ya, Yb)) for bc in _bc_list], []): the two entries of every
\* boundary condition in the order of bc_list, or the first error
bc_func(bl, b, k) ==
    IF k > Len(bl) THEN NoRows
    ELSE LET r == BcApply(bl[k].kind, YaRow(bl[k].idx), YaRow(bl[k].idx + 1), 0, 0,
                          [index |-> BcIndexOf(b, bl[k].bc), value |-> <<0, 0, 0>>])
             rest == bc_func(bl, b, k + 1)
         IN IF r.err # "none" THEN [err |-> r.err, rows |-> <<>>]
            ELSE IF rest.err # "none" THEN rest
            ELSE [err |-> "none", rows |-> <<r.axis, r.edge>> \o rest.rows]

\* one equation of eq_list called as eq(x, Y): it returns the pair (dy, dg);
\* line 475 calls _n_imp(x), a TypeError when _n_imp is the int 0
eq_call(e) ==
    IF e.density.n_imp_call = "int"
    THEN [err |-> "TypeError: 'int' object is not callable", rows |-> <<>>]
    ELSE [err |-> "none", rows |-> <<<<"dy", e.idx>>, <<"dg", e.idx + 1>>>>]

RECURSIVE func(_, _)
\* lines 728-730: v_list = sum([list(eq(x, Y)) for eq in _eq_list], []) and
\* np.vstack of its entries
func(el, k) ==
    IF k > Len(el) THEN NoRows
    ELSE LET r == eq_call(el[k])
             rest == func(el, k + 1)
         IN IF r.err # "none" THEN r
            ELSE IF rest.err # "none" THEN rest
            ELSE [err |-> "none", rows |-> r.rows \o rest.rows]

(***************************************************************************)
(* RadialGrid.remesh(new_axis, label), MagneticCoordSystem.py lines 61-85. *)
(* Arguments are tagged with their Python type.                            *)
(***************************************************************************)
Str(v) == [t |-> "str", v |-> v]
Arr(v) == [t |-> "array", v |-> v]
IntArg(v) == [t |-> "int", v |-> v]

\* the radial grid of equilibrium_next, as radial_grid builds it (lines
\* 234-248); volume stands for the arrays rho_pol_norm, area, surface and
\* volume, which the RadialGrid that remesh builds is not given (lines 80-83)
GridEq ==
    [psi_axis |-> 0, psi_boundary |-> 4, rho_tor_boundary |-> 2,
     axes |-> [psi_norm |-> <<0, 1, 4>>,
               rho_tor_norm |-> <<0, 2, 4>>,
               dvolume_drho_tor |-> <<0, 4, 8>>,
               volume |-> <<0, 3, 9>>]]

AxisNames == {"psi_norm", "rho_tor_norm", "dvolume_drho_tor", "volume"}

RECURSIVE Segment(_, _, _)
\* index of the knot interval of axis that holds x
Segment(axis, x, j) ==
    IF j + 1 >= Len(axis) \/ x < axis[j + 1] THEN j ELSE Segment(axis, x, j + 1)

\* Function(axis, ys)(x): piecewise-linear interpolation
InterpAt(axis, ys, x) ==
    LET j == Segment(axis, x, 1)
    IN ys[j] + ((ys[j + 1] - ys[j]) * (x - axis[j])) \div (axis[j + 1] - axis[j])

Resample(axis, ys, new_axis) ==
    [i \in 1 .. Len(new_axis) |-> InterpAt(axis, ys, new_axis[i])]

\* np.linspace(0, 1.0, n) on the scaled axis 0..4
Linspace(n) == [i \in 1 .. n |-> (4 * (i - 1)) \div (n - 1)]

remesh(grid, new_axis, label) ==
    IF ~(label.t = "str" /\ label.v \in AxisNames)
    THEN [err |-> "RuntimeError: Can not find axis", grid |-> grid]
    ELSE IF new_axis.t = "array" /\ new_axis.v = grid.axes[label.v]
    THEN [err |-> "none", grid |-> grid]
    ELSE IF new_axis.t \notin {"int", "array"}
    THEN [err |-> "TypeError", grid |-> grid]
    ELSE LET axis == grid.axes[label.v]
             na == IF new_axis.t = "int" THEN Linspace(new_axis.v) ELSE new_axis.v
         IN [err |-> "none",
             grid |-> [psi_axis |-> grid.psi_axis,
                       psi_boundary |-> grid.psi_boundary,
                       rho_tor_boundary |-> grid.rho_tor_boundary,
                       axes |-> [psi_norm |->
                                     IF label.v # "psi_norm"
                                     THEN Resample(axis, grid.axes.psi_norm, na)
                                     ELSE na,
                                 rho_tor_norm |->
                                     IF label.v # "rho_tor_norm"
                                     THEN Resample(axis, grid.axes.rho_tor_norm, na)
                                     ELSE na,
                                 dvolume_drho_tor |->
                                     Resample(axis, grid.axes.dvolume_drho_tor, na)]]]

(***************************************************************************)
(* CoreTransportSolverBVP2.solve, lines 691-770.                           *)
(***************************************************************************)
\* line 701: the default of the keyword max_nodes, handed to solve_bvp
max_nodes == 250

NoSol == [success |-> FALSE, residual |-> 0, x |-> <<>>]

NoSlice == [grid |-> GridEq, vars |-> <<>>, ion |-> <<>>]

NoEvals == [func |-> NoRows, bc |-> NoRows, dg |-> <<>>]

SolveRest ==
    /\ spc = "Idle"
    /\ quasi_neutral = "electrons"
    /\ dt = None
    /\ ions = <<>>
    /\ bcs = [current |-> 1, e_particles |-> 1, e_energy |-> 1, ion_energy |-> 1]
    /\ glob = NoGlobals
    /\ sys = EmptySystem
    /\ sol = NoSol
    /\ evals = NoEvals
    /\ slice_next = NoSlice
    /\ s_raised = "none"
    /\ strace = <<"Idle">>

(***************************************************************************)
(* Critical points of psi(R, Z): MagneticCoordSystem.critical_points       *)
(* (MagneticCoordSystem.py lines 254-285) and                              *)
(* MagneticSurfaceAnalyze.critical_points (eq_analyze.py lines 171-204).   *)
(* find_critical_points yields tuples (r, z, psi, D), D the determinant of *)
(* the Hessian.  OXPoint keeps r, z and psi; the model keeps D with the    *)
(* point so that the lists can be read against it.                         *)
(***************************************************************************)
Impls == {"MagneticCoordSystem", "MagneticSurfaceAnalyze"}

\* self._psirz.mesh.bbox: (rmin, zmin, rmax, zmax)
bbox == <<0, 0, 4, 4>>

\* points the search can yield
O1 == [r |-> 2, z |-> 2, psi |-> 0, D |-> 1]
O2 == [r |-> 0, z |-> 0, psi |-> 1, D |-> 1]
X1 == [r |-> 2, z |-> 0, psi |-> 3, D |-> 0 - 1]
X2 == [r |-> 4, z |-> 4, psi |-> 2, D |-> 0 - 1]
P0 == [r |-> 3, z |-> 2, psi |-> 4, D |-> 0]

CandidatePoints == {O1, O2, X1, X2, P0}

MaxPoints == 3

\* the searches: every sequence of distinct points
FoundLists ==
    {f \in UNION {[1 .. n -> CandidatePoints] : n \in 0 .. MaxPoints} :
        \A i \in 1 .. Len(f), j \in 1 .. Len(f) : f[i] = f[j] => i = j}

RECURSIVE InsertByKey(_, _)
\* e goes behind every element whose key is not greater than its own
InsertByKey(sorted, e) ==
    IF Len(sorted) = 0 THEN <<e>>
    ELSE IF Head(sorted).key <= e.key
    THEN <<Head(sorted)>> \o InsertByKey(Tail(sorted), e)
    ELSE <<e>> \o sorted

RECURSIVE SortByKey(_, _)
\* list.sort(key=...) on the first k elements: stable, ascending
SortByKey(s, k) ==
    IF k = 0 THEN <<>> ELSE InsertByKey(SortByKey(s, k - 1), s[k])

Items(s) == [i \in 1 .. Len(s) |-> s[i].p]

\* (x.r - r0)**2 + (x.z - z0)**2
Dist2(x, r0, z0) == (x.r - r0) * (x.r - r0) + (x.z - z0) * (x.z - z0)

\* lines 259-265: D < 0.0 goes to xpoints, everything else to opoints
Saddles(f) == SelectSeq(f, LAMBDA x : x.D < 0)
Extrema(f) == SelectSeq(f, LAMBDA x : ~(x.D < 0))

\* lines 275-279: opoints.sort(key=distance to the middle of the bbox)
SortOPoints(o) ==
    LET Rmid == (bbox[1] + bbox[3]) \div 2
        Zmid == (bbox[2] + bbox[4]) \div 2
    IN Items(SortByKey([i \in 1 .. Len(o) |->
                           [key |-> Dist2(o[i], Rmid, Zmid), p |-> o[i]]],
                       Len(o)))

\* MagneticCoordSystem.py line 283:
\* xpoints.sort(key=lambda x: (x.psi - psi_axis)**2)
SortXByPsi(x, psi_axis) ==
    Items(SortByKey([i \in 1 .. Len(x) |->
                        [key |-> (x[i].psi - psi_axis) * (x[i].psi - psi_axis),
                         p |-> x[i]]],
                    Len(x)))

\* eq_analyze.py line 200:
\* xpoints.sort(key=lambda x: (x.r - o_r)**2 + (x.z - o_z)**2)
SortXByDistance(x, o) ==
    Items(SortByKey([i \in 1 .. Len(x) |->
                        [key |-> Dist2(x[i], o.r, o.z), p |-> x[i]]],
                    Len(x)))

NotCached == [err |-> "not cached", opoints |-> <<>>, xpoints |-> <<>>]

\* as critical_points, but an empty opoints is returned and not raised
critical_points_empty(f, im) ==
    LET o == SortOPoints(Extrema(f))
    IN [err |-> "none",
        opoints |-> o,
        xpoints |-> IF Len(o) = 0 THEN Saddles(f)
                    ELSE IF im = "MagneticSurfaceAnalyze"
                    THEN SortXByDistance(Saddles(f), o[1])
                    ELSE SortXByPsi(Saddles(f), o[1].psi)]

\* critical_points of the class im on the search result f
critical_points(f, im) ==
    IF Len(Extrema(f)) = 0
    THEN [err |-> "RuntimeError: Can not find o-point!",
          opoints |-> <<>>, xpoints |-> <<>>]
    ELSE LET o == SortOPoints(Extrema(f))
         IN [err |-> "none",
             opoints |-> o,
             xpoints |-> IF im = "MagneticSurfaceAnalyze"
                         THEN SortXByDistance(Saddles(f), o[1])
                         ELSE SortXByPsi(Saddles(f), o[1].psi)]

\* self.critical_points: a cached_property computes once and keeps the value;
\* a call that raises leaves nothing in the cache
cached_critical_points(c, f, im) ==
    IF c.err = "none" THEN c ELSE critical_points(f, im)

EPending == [err |-> "pending", value |-> <<>>]

\* magnetic_axis, lines 392-402 (eq_analyze.py lines 309-319)
magnetic_axis_of(c) ==
    IF c.err # "none" THEN [err |-> c.err, value |-> <<>>]
    ELSE IF Len(c.opoints) = 0
    THEN [err |-> "RuntimeError: Can not find magnetic axis", value |-> <<>>]
    ELSE [err |-> "none", value |-> <<c.opoints[1].r, c.opoints[1].z>>]

\* psi_axis, lines 412-416 (psi_magnetic_axis, eq_analyze.py lines 321-325)
psi_axis_of(c) ==
    IF c.err # "none" THEN [err |-> c.err, value |-> <<>>]
    ELSE IF Len(c.opoints) = 0
    THEN [err |-> "IndexError", value |-> <<>>]
    ELSE [err |-> "none", value |-> <<c.opoints[1].psi>>]

\* psi_boundary, lines 418-425 (eq_analyze.py lines 327-334)
psi_boundary_of(c) ==
    IF c.err # "none" THEN [err |-> c.err, value |-> <<>>]
    ELSE IF Len(c.xpoints) > 0
    THEN [err |-> "none", value |-> <<c.xpoints[1].psi>>]
    ELSE [err |-> "ValueError: No x-point", value |-> <<>>]

(***************************************************************************)
(* find_surface, MagneticCoordSystem.py lines 287-384 and eq_analyze.py    *)
(* lines 206-302.  A contour is the sequence of its nodes <<r, z>>.  The   *)
(* nodes of the model lie on the eight compass directions seen from O1,    *)
(* where arctan2 is a multiple of pi/4: angles are counted in units of     *)
(* pi/4.                                                                   *)
(***************************************************************************)
\* TWOPI = 2.0*constants.pi, in units of pi/4
TWOPI == 8

Abs(a) == IF a < 0 THEN 0 - a ELSE a

\* np.arctan2(a, b) in units of pi/4, in -3 .. 4; exact on the compass
\* directions, a neighbouring compass direction otherwise
arctan2(a, b) ==
    IF a = 0 THEN (IF b < 0 THEN 4 ELSE 0)
    ELSE IF a > 0
    THEN (IF b > 0 THEN (IF a >= b THEN 1 ELSE 0)
          ELSE IF b = 0 THEN 2
          ELSE (IF a > Abs(b) THEN 2 ELSE 3))
    ELSE (IF b > 0 THEN (IF Abs(a) > b THEN 0 - 2 ELSE 0 - 1)
          ELSE IF b = 0 THEN 0 - 2
          ELSE 0 - 3)

\* theta = np.arctan2(points[:, 0]-o_point.r, points[:, 1]-o_point.z)
ThetaOf(points, o) ==
    [i \in 1 .. Len(points) |-> arctan2(points[i][1] - o.r, points[i][2] - o.z)]

SeqMax(t) == CHOOSE m \in {t[i] : i \in 1 .. Len(t)} : \A i \in 1 .. Len(t) : t[i] <= m
SeqMin(t) == CHOOSE m \in {t[i] : i \in 1 .. Len(t)} : \A i \in 1 .. Len(t) : m <= t[i]

\* np.argmax and np.argmin: the first position of the extreme, counted from 0
argmax(t) == (CHOOSE i \in 1 .. Len(t) : t[i] = SeqMax(t) /\ \A j \in 1 .. i - 1 : t[j] # SeqMax(t)) - 1
argmin(t) == (CHOOSE i \in 1 .. Len(t) : t[i] = SeqMin(t) /\ \A j \in 1 .. i - 1 : t[j] # SeqMin(t)) - 1

\* np.roll(t, -k): the element at position k (from 0) comes first
roll(t, k) == [i \in 1 .. Len(t) |-> t[((i - 1 + k) % Len(t)) + 1]]

\* np.flip
flip(t) == [i \in 1 .. Len(t) |-> t[Len(t) + 1 - i]]

\* 1.0 - (max(theta)-min(theta))/TWOPI > 2.0/len(theta), both sides
\* multiplied by TWOPI*len(theta): open, or the O-point is not inside
IsOpenOrOutside(theta) ==
    Len(theta) * (TWOPI - (SeqMax(theta) - SeqMin(theta))) > 2 * TWOPI

\* np.isclose((theta[0]-theta[-1]) % TWOPI, 0.0)
EndsMeet(theta) == (theta[1] - theta[Len(theta)]) % TWOPI = 0

\* idx of the separatrix branch: the segments a -> b with c >= 0 and
\* c**2 + s**2 < 1, c = p.d/d2 and s = p x d/d2 for p = xpt - a, d = b - a;
\* c**2 + s**2 = |p|**2/|d|**2.  Segments are counted from 0.
NearXSegments(points, x) ==
    {i \in 0 .. Len(points) - 2 :
        LET a == points[i + 1]
            b == points[i + 2]
            d == <<b[1] - a[1], b[2] - a[2]>>
            q == <<x.r - a[1], x.z - a[2]>>
        IN /\ q[1] * d[1] + q[2] * d[2] >= 0
           /\ q[1] * q[1] + q[2] * q[2] < d[1] * d[1] + d[2] * d[2]}

\* points[i0:i1], positions counted from 0
Slice(t, i0, i1) == SubSeq(t, i0 + 1, i1)

NoCurve == [st |-> "continue", points |-> <<>>, theta |-> <<>>]

CurveError(e) == [st |-> e, points |-> <<>>, theta |-> <<>>]

\* lines 356-371: "theta must be strictly increased".  The closing node and
\* angle are added, and theta is shifted to begin at 0 (and divided by its
\* span, which the model leaves out), inside the branch p_min > 0 only.
Reordered(points, theta) ==
    LET p_min == argmin(theta)
        p_max == argmax(theta)
    IN IF p_min > 0
       THEN IF p_min # p_max + 1 /\ p_min # p_max - 1
            THEN CurveError("ValueError: Can not convert 'u' to be strictly increased!")
            ELSE LET th == IF p_min = p_max + 1 THEN roll(theta, p_min)
                           ELSE flip(roll(theta, p_min + 1))
                     pt == IF p_min = p_max + 1 THEN roll(points, p_min)
                           ELSE flip(roll(points, p_min + 1))
                     tc == Append(th, th[1] + TWOPI)
                 IN [st |-> "ok",
                     points |-> Append(pt, pt[1]),
                     theta |-> [i \in 1 .. Len(tc) |-> tc[i] - SeqMin(tc)]]
       ELSE [st |-> "ok", points |-> points, theta |-> theta]

NoXPoint == [r |-> 0, z |-> 0, psi |-> 0, D |-> 0]

\* lines 322-375: the body of "for points in col" for one contour; has_x
\* tells whether x_point is not None
surface_of(points, o, has_x, x) ==
    LET theta == ThetaOf(points, o)
    IN IF IsOpenOrOutside(theta) THEN NoCurve
       ELSE IF EndsMeet(theta)
       THEN Reordered(Slice(points, 0, Len(points) - 1),
                      Slice(theta, 0, Len(theta) - 1))
       ELSE IF ~has_x THEN CurveError("RuntimeError: No X-point")
       ELSE LET idx == NearXSegments(points, x)
            IN IF Cardinality(idx) # 2 THEN CurveError("NotImplementedError")
               ELSE LET idx0 == CHOOSE i \in idx : \A j \in idx : i <= j
                        idx1 == CHOOSE i \in idx : \A j \in idx : j <= i
                    IN Reordered(<<<<x.r, x.z>>>> \o Slice(points, idx0, idx1),
                                 <<arctan2(x.r - o.r, x.z - o.z)>>
                                     \o Slice(theta, idx0, idx1))

\* contours find_countours returns.  The nodes of the closed contour around
\* O1 in the order of growing theta, and the contour as traced from its
\* node s in the direction dir, the first node repeated at the end
RingNodes == <<<<1, 2>>, <<2, 3>>, <<3, 2>>, <<2, 1>>>>

RingTrace(s, dir) ==
    [i \in 1 .. Len(RingNodes) + 1 |->
        RingNodes[((s - 1 + dir * (i - 1)) % Len(RingNodes)) + 1]]

\* an open contour that passes O1 on one side
OpenArc == <<<<3, 3>>, <<3, 2>>, <<3, 1>>>>

\* the contour of the level of X1: from one leg it passes X1, goes around
\* O1, passes X1 again and leaves on the other leg
Separatrix ==
    <<<<0, 0>>, <<3, 1>>, <<3, 2>>, <<3, 3>>, <<1, 3>>, <<1, 2>>, <<1, 1>>,
      <<4, 0>>>>

\* a level of the argument psi with the contours find_countours gives for it
LevelCatalogue ==
    {[level |-> 1, col |-> <<RingTrace(s, dir)>>] : s \in 1 .. 4, dir \in {1, 0 - 1}}
    \cup {[level |-> 1, col |-> <<OpenArc, RingTrace(2, 1)>>],
          [level |-> 1, col |-> <<RingTrace(2, 1), RingTrace(3, 0 - 1)>>],
          [level |-> 2, col |-> <<OpenArc>>],
          [level |-> 2, col |-> <<>>],
          [level |-> O1.psi, col |-> <<>>],
          [level |-> O1.psi, col |-> <<OpenArc>>],
          [level |-> X1.psi, col |-> <<Separatrix>>]}

MaxLevels == 2

PsiArgs == UNION {[1 .. n -> LevelCatalogue] : n \in 0 .. MaxLevels}

\* the argument o_point of find_surface: True (the default), None or a point
OTrue == [t |-> "True", p |-> NoXPoint]
ONone == [t |-> "None", p |-> NoXPoint]
OPointArgs == {OTrue, ONone, [t |-> "OXPoint", p |-> O1]}

\* searches of the find_surface calls
FoundScenarios == {<<>>, <<X1>>, <<O1>>, <<O1, X1>>}

EqMembers == {"critical_points", "magnetic_axis", "psi_axis", "psi_boundary"}

\* the generator object find_surface returns: nothing of its body has run
NoGenerator ==
    [stage |-> "new", k |-> 0, out |-> <<>>, theta_bound |-> FALSE,
     o |-> ONone, has_x |-> FALSE, x |-> NoXPoint]

RECURSIVE first_surface(_, _, _, _, _)
\* lines 322-378: "for points in col", left at the first contour that is
\* not skipped
first_surface(col, j, o, has_x, x) ==
    IF j > Len(col) THEN NoCurve
    ELSE LET r == surface_of(col[j], o, has_x, x)
         IN IF r.st = "continue" THEN first_surface(col, j + 1, o, has_x, x)
            ELSE r

\* lines 320-384: one round of "for level, col in find_countours(...)" with
\* an o_point; theta_bound tells whether the local theta has a value
level_surface(lv, o, has_x, x, theta_bound) ==
    LET r == first_surface(lv.col, 1, o, has_x, x)
    IN IF r.st = "ok"
       THEN [err |-> "none",
             out |-> <<[level |-> lv.level, kind |-> "curve",
                        points |-> r.points, theta |-> r.theta]>>]
       ELSE IF r.st # "continue" THEN [err |-> r.st, out |-> <<>>]
       ELSE IF lv.level = o.psi
       THEN [err |-> "none",
             out |-> <<[level |-> lv.level, kind |-> "point",
                        points |-> <<<<o.r, o.z>>>>, theta |-> <<>>]>>]
       ELSE IF theta_bound \/ Len(lv.col) > 0
       THEN [err |-> "RuntimeError", out |-> <<>>]
       ELSE [err |-> "UnboundLocalError: theta", out |-> <<>>]

\* lines 315-318: without o_point every contour of the level is a result
level_contours(lv) ==
    [err |-> "none",
     out |-> [j \in 1 .. Len(lv.col) |->
                 [level |-> lv.level, kind |-> "curve",
                  points |-> lv.col[j], theta |-> <<>>]]]

(***************************************************************************)
(* Flux surfaces by psi_norm and the surface integral,                     *)
(* MagneticCoordSystem.py lines 386-387, 542-559 and 601-628, and          *)
(* create_surface of modules/transport/MagneticCoordSystem.py, lines       *)
(* 223-243.  For these members the field level of an element of psi holds  *)
(* psi_norm, counted in units of 1/PsiNormUnits, and col the contours      *)
(* find_countours gives for the level that psi_norm stands for.            *)
(***************************************************************************)
ModulesImpl == "modules.transport.MagneticCoordSystem"

PsiNormUnits == X1.psi - O1.psi

\* np.asarray(psi_norm)*(self.psi_boundary-self.psi_axis)+self.psi_axis
by_psi_norm(ps, c) ==
    [k \in 1 .. Len(ps) |->
        [level |-> (ps[k].level * (c.xpoints[1].psi - c.opoints[1].psi))
                       \div PsiNormUnits + c.opoints[1].psi,
         col |-> ps[k].col]]

\* _surface_integral() as dvolume_dpsi calls it, lines 612-620, on the
\* surfaces out of the mesh: for p, axis in self.mesh.axis_iter(),
\* axis.integral(...) if not np.isclose(p, 0) else c0.  eq_analyze.py lines
\* 504-520 replace func = None by the float 1.0 and take func(r0, z0) * c0 on
\* the axis: a float is not callable.
surface_integral(ps, out, im) ==
    IF im = "MagneticSurfaceAnalyze" /\ \E k \in 1 .. Len(ps) : ps[k].level = 0
    THEN [err |-> "TypeError: 'float' object is not callable", value |-> <<>>]
    ELSE [err |-> "none",
          value |-> [k \in 1 .. Len(ps) |->
                        [p |-> ps[k].level,
                         axis |-> out[k],
                         by |-> IF ps[k].level = 0 THEN "c0"
                                ELSE "axis.integral"]]]

\* Point(*args): the point is kept as the arguments it was built from
Point(args) == [kind |-> "point", points |-> args]

\* create_surface, lines 223-243, for a list of floats psi_norm: an element
\* with np.abs(psi_norm) <= EPS gives Point(*o), o the list of O-points
\* (namedtuples r, z, psi); any other element the closed curve through the
\* points of flux_surface_map
create_surface_of(ps, c) ==
    IF c.err # "none" THEN [err |-> c.err, value |-> <<>>]
    ELSE [err |-> "none",
          value |-> [k \in 1 .. Len(ps) |->
                        IF ps[k].level = 0
                        THEN Point([i \in 1 .. Len(c.opoints) |->
                                       <<c.opoints[i].r, c.opoints[i].z,
                                         c.opoints[i].psi>>])
                        ELSE [kind |-> "curve", points |-> <<>>]]]

\* the arguments psi_norm of the calls by psi_norm
PsiNormCatalogue ==
    {[level |-> 0, col |-> <<>>],
     [level |-> 0, col |-> <<OpenArc>>],
     [level |-> 1, col |-> <<RingTrace(2, 1)>>],
     [level |-> 1, col |-> <<OpenArc, RingTrace(3, 1)>>],
     [level |-> 2, col |-> <<RingTrace(3, 0 - 1)>>],
     [level |-> 2, col |-> <<OpenArc>>]}

PsiNormArgs == UNION {[1 .. n -> PsiNormCatalogue] : n \in 0 .. MaxLevels}

(***************************************************************************)
(* The constructors: MagneticCoordSystem.__init__, MagneticCoordSystem.py  *)
(* lines 187-228, and MagneticSurfaceAnalyze.__init__, eq_analyze.py lines *)
(* 98-148.  psi_norm is counted in hundredths.                             *)
(***************************************************************************)
\* np.linspace(lo, hi, n)
linspace(lo, hi, n) == [i \in 1 .. n |-> lo + ((hi - lo) * (i - 1)) \div (n - 1)]

\* an argument with its Python type: an int n, an array y, a spdm Function
\* with the knots x and the values y, or None
CInt(n) == [t |-> "int", n |-> n, x |-> <<>>, y |-> <<>>]
CArr(y) == [t |-> "array", n |-> 0, x |-> <<>>, y |-> y]
Fun(x, y) == [t |-> "Function", n |-> 0, x |-> x, y |-> y]
NoneArg == [t |-> "NoneType", n |-> 0, x |-> <<>>, y |-> <<>>]

NoCtor == [fpol |-> NoneArg, psi_norm |-> NoneArg]

NoFunction == [x |-> <<>>, y |-> <<>>]

\* lines 216-221 (eq_analyze.py lines 136-141): self._psi_norm
init_psi_norm(a, im) ==
    IF a.t = "int"
    THEN [err |-> "none",
          v |-> IF im = "MagneticSurfaceAnalyze" THEN linspace(0, 100, a.n)
                ELSE linspace(0, 99, a.n)]
    ELSE IF a.t = "array" THEN [err |-> "none", v |-> a.y]
    ELSE IF im = "MagneticSurfaceAnalyze"
    THEN [err |-> "RuntimeError: psi_norm grid is not defined!", v |-> <<>>]
    ELSE [err |-> "none", v |-> linspace(0, 99, 128)]

\* lines 223-228: an array becomes a Function on np.linspace(0, 1.0, len),
\* a Function is kept.  eq_analyze.py lines 143-148: a Function is kept, an
\* array is taken only when it is as long as self._psi_norm
init_fpol(a, psi_norm, im) ==
    IF im = "MagneticSurfaceAnalyze"
    THEN IF a.t = "Function" THEN [err |-> "none", f |-> [x |-> a.x, y |-> a.y]]
         ELSE IF a.t = "array" /\ Len(a.y) = Len(psi_norm)
         THEN [err |-> "none", f |-> [x |-> psi_norm, y |-> a.y]]
         ELSE [err |-> "RuntimeError: fpol is not defined!", f |-> NoFunction]
    ELSE IF a.t = "array"
    THEN [err |-> "none", f |-> [x |-> linspace(0, 100, Len(a.y)), y |-> a.y]]
    ELSE IF a.t = "Function" THEN [err |-> "none", f |-> [x |-> a.x, y |-> a.y]]
    ELSE [err |-> "TypeError", f |-> NoFunction]

\* __init__: the attributes _psi_norm and _fpol of the object, or the
\* exception
init_of(c, im) ==
    LET pn == init_psi_norm(c.psi_norm, im)
        fp == IF pn.err = "none" THEN init_fpol(c.fpol, pn.v, im)
              ELSE [err |-> pn.err, f |-> NoFunction]
    IN IF fp.err # "none" THEN [err |-> fp.err, value |-> <<>>]
       ELSE [err |-> "none", value |-> <<pn.v, fp.f.x, fp.f.y>>]

\* the property fpol, line 642 (eq_analyze.py line 663):
\* self._fpol(self.psi_norm)
fpol_of(psi_norm, x, y) == Resample(x, y, psi_norm)

\* arguments of the constructors
FpolArgs ==
    {CArr(<<4, 8>>), CArr(<<4, 6, 8>>), CArr(<<4, 8, 6, 2>>),
     Fun(<<0, 100>>, <<4, 8>>), Fun(<<0, 50, 100>>, <<4, 8, 6>>), NoneArg}

PsiNormGridArgs ==
    {CInt(2), CInt(3), CInt(4), CArr(<<0, 50, 100>>), CArr(<<0, 25, 100>>), NoneArg}

CtorArgs == [fpol : FpolArgs, psi_norm : PsiNormGridArgs]

EqRest ==
    /\ impl = "MagneticCoordSystem"
    /\ found = <<>>
    /\ eop = "none"
    /\ o_point = OTrue
    /\ psi = <<>>
    /\ ctor = NoCtor
    /\ crit = NotCached
    /\ eres = EPending
    /\ fs = NoGenerator

(***************************************************************************)
(* The cached properties of Equilibrium, modules/transport/Equilibrium.py  *)
(* lines 94-214, and update / update_cache, lines 78-92.  A cached         *)
(* property that has a value is an entry of the instance __dict__; the     *)
(* model keeps with it the number of the psi(R, Z) it was computed from,   *)
(* and 0 when it has no value.  An object (global_quantities, boundary,    *)
(* coordinate_system, profiles_1d) stands for itself and for the values    *)
(* it computes and caches inside itself: psi_axis (lines 400-404), outline *)
(* (lines 800-804), mesh (lines 238-265), _psi_norm (line 446).            *)
(***************************************************************************)
MaxRebuilds == 2

CachedItems ==
    {"psirz", "critical_points", "profiles_1d", "profiles_2d",
     "global_quantities", "boundary", "boundary_separatrix", "coordinate_system"}

\* what the value of a cached property is computed from: the data of the
\* equilibrium, or another cached property of it
Source(item) ==
    CASE item = "psirz" -> "data"
      [] item = "critical_points" -> "psirz"
      [] item = "global_quantities" -> "critical_points"
      [] item = "boundary" -> "critical_points"
      [] item = "coordinate_system" -> "critical_points"
      [] item = "profiles_1d" -> "coordinate_system"
      [] item = "profiles_2d" -> "data"
      [] item = "boundary_separatrix" -> "data"

RECURSIVE Fetch(_, _, _)
\* the cache after self.<item> was read: functools.cached_property computes
\* the value only when the instance __dict__ has none
Fetch(c, item, gen) ==
    IF c[item] # 0 THEN c
    ELSE IF Source(item) = "data" THEN [c EXCEPT ![item] = gen]
    ELSE LET c1 == Fetch(c, Source(item), gen)
         IN [c1 EXCEPT ![item] = c1[Source(item)]]

\* the statements of update_cache, lines 87-92
UpdateCacheBody ==
    <<[op |-> "del", item |-> "global_quantities"],
      [op |-> "del", item |-> "profiles_1d"],
      [op |-> "get", item |-> "profiles_2d"],
      [op |-> "del", item |-> "boundary"],
      [op |-> "del", item |-> "boundary_separatrix"],
      [op |-> "del", item |-> "coordinate_system"]>>

RECURSIVE Run(_, _, _, _, _)
\* the statements from k on.  del of a cached_property that has no value
\* reaches object.__delattr__, which raises AttributeError and ends the
\* body, unless the base class PhysicalGraph (package spdm, outside this
\* repository) overrides __delattr__; strict tells which of the two holds
Run(body, k, c, gen, strict) ==
    IF k > Len(body) THEN [err |-> "none", cache |-> c]
    ELSE IF body[k].op = "get"
    THEN Run(body, k + 1, Fetch(c, body[k].item, gen), gen, strict)
    ELSE IF c[body[k].item] = 0 /\ strict
    THEN [err |-> "AttributeError: " \o body[k].item, cache |-> c]
    ELSE Run(body, k + 1, [c EXCEPT ![body[k].item] = 0], gen, strict)

update_cache(c, gen, strict) == Run(UpdateCacheBody, 1, c, gen, strict)

CacheRest ==
    /\ generation = 1
    /\ cached = [i \in CachedItems |-> 0]
    /\ c_raised = "none"

Init == TokInit /\ BcRest /\ SolveRest /\ EqRest /\ CacheRest

\* update is not running
AtRest == pc \in {"idle", "done", "raised"}

(***************************************************************************)
(* Tokamak.core_profiles (property): created from the cache on first use.  *)
(***************************************************************************)
core_profiles ==
    /\ AtRest
    /\ self_core_profiles = None
    /\ self_core_profiles' = CacheProfile
    /\ UNCHANGED <<pc, max_iters, tolerance, iter_count, convergence,
                   core_profiles_prev, core_profiles_next, src_i, trans_i,
                   residual, raised, eq_updates, steps>>
    /\ UNCHANGED histVars
    /\ UNCHANGED <<bcVars, solveVars, eqVars, cacheVars>>

(***************************************************************************)
(* Equilibrium.update, called by the user between two update calls.        *)
(* Tokamak.update itself never calls it: the call is commented out.        *)
(***************************************************************************)
equilibrium_update ==
    /\ AtRest
    /\ eq_updates < MaxEqUpdates
    /\ eq_updates' = eq_updates + 1
    /\ UNCHANGED <<pc, self_core_profiles, max_iters, tolerance, iter_count,
                   convergence, core_profiles_prev, core_profiles_next,
                   src_i, trans_i, residual, raised, steps>>
    /\ UNCHANGED histVars
    /\ UNCHANGED <<bcVars, solveVars, eqVars, cacheVars>>

(***************************************************************************)
(* Tokamak.update, lines 151-168: arguments, convergence = False, and the  *)
(* selection of core_profiles_prev.                                        *)
(***************************************************************************)
SelectPrev(arg, stored) ==
    IF arg # None THEN arg ELSE stored

update_enter ==
    /\ AtRest
    /\ steps < MaxSteps
    /\ \E k \in IterArgs, tol \in Tolerances, arg \in {None} \cup Profiles :
        /\ max_iters' = k
        /\ tolerance' = tol
        /\ convergence' = FALSE
        /\ iter_count' = Unbound
        /\ core_profiles_prev' = SelectPrev(arg, self_core_profiles)
        /\ snapshot' = SelectPrev(arg, self_core_profiles)
        /\ IF SelectPrev(arg, self_core_profiles) = None
           THEN /\ pc' = "raised"
                /\ raised' = "RuntimeError: Core profiles is not defined!"
           ELSE /\ pc' = "for"
                /\ raised' = "none"
    /\ steps' = steps + 1
    /\ core_profiles_next' = None
    /\ src_i' = 0
    /\ trans_i' = 0
    /\ residual' = 0
    /\ stored_at_entry' = self_core_profiles
    /\ ym_solver' = None
    /\ solver_calls' = 0
    /\ next_writes' = 0
    /\ met_tol' = FALSE
    /\ eq_at_iter' = eq_updates
    /\ UNCHANGED <<self_core_profiles, eq_updates>>
    /\ UNCHANGED <<bcVars, solveVars, eqVars, cacheVars>>

(***************************************************************************)
(* for iter_count in range(max_iters), line 170.                           *)
(***************************************************************************)
RangeHasNext(i, n) == i + 1 < n

update_for ==
    /\ pc = "for"
    /\ IF RangeHasNext(iter_count, max_iters)
       THEN /\ iter_count' = iter_count + 1
            /\ pc' = "sources"
            /\ src_i' = 0
            /\ trans_i' = 0
            /\ next_writes' = 0
            /\ eq_at_iter' = eq_updates
       ELSE /\ pc' = "after"
            /\ UNCHANGED <<iter_count, src_i, trans_i, next_writes, eq_at_iter>>
    /\ UNCHANGED <<self_core_profiles, max_iters, tolerance, convergence,
                   core_profiles_prev, core_profiles_next, residual, raised,
                   eq_updates, steps>>
    /\ UNCHANGED <<snapshot, stored_at_entry, ym_solver, solver_calls, met_tol>>
    /\ UNCHANGED <<bcVars, solveVars, eqVars, cacheVars>>

(***************************************************************************)
(* Lines 181-182: for src in self.core_sources: src.update(...)            *)
(***************************************************************************)
update_sources ==
    /\ pc = "sources"
    /\ IF src_i < NSources
       THEN /\ src_i' = src_i + 1
            /\ pc' = pc
       ELSE /\ pc' = "transport"
            /\ src_i' = src_i
    /\ UNCHANGED <<self_core_profiles, max_iters, tolerance, iter_count,
                   convergence, core_profiles_prev, core_profiles_next,
                   trans_i, residual, raised, eq_updates, steps>>
    /\ UNCHANGED histVars
    /\ UNCHANGED <<bcVars, solveVars, eqVars, cacheVars>>

(***************************************************************************)
(* Lines 184-185: for trans in self.core_transport: trans.update(...)      *)
(***************************************************************************)
update_transport ==
    /\ pc = "transport"
    /\ IF trans_i < NTransports
       THEN /\ trans_i' = trans_i + 1
            /\ pc' = pc
       ELSE /\ pc' = "make_next"
            /\ trans_i' = trans_i
    /\ UNCHANGED <<self_core_profiles, max_iters, tolerance, iter_count,
                   convergence, core_profiles_prev, core_profiles_next,
                   src_i, residual, raised, eq_updates, steps>>
    /\ UNCHANGED histVars
    /\ UNCHANGED <<bcVars, solveVars, eqVars, cacheVars>>

(***************************************************************************)
(* Lines 187-190: a fresh, empty core_profiles_next on the same grid.      *)
(***************************************************************************)
update_make_next ==
    /\ pc = "make_next"
    /\ core_profiles_next' = None
    /\ pc' = "solve"
    /\ UNCHANGED <<self_core_profiles, max_iters, tolerance, iter_count,
                   convergence, core_profiles_prev, src_i, trans_i, residual,
                   raised, eq_updates, steps>>
    /\ UNCHANGED histVars
    /\ UNCHANGED <<bcVars, solveVars, eqVars, cacheVars>>

(***************************************************************************)
(* Lines 192-198: self.transport.update(core_profiles_prev,                *)
(* core_profiles_next, ...).  The solver fills core_profiles_next and has  *)
(* a residual; update has no handler, so an exception of the solver ends   *)
(* the call.                                                               *)
(***************************************************************************)
update_solve ==
    /\ pc = "solve"
    /\ \E y \in Profiles, r \in Residuals :
        /\ core_profiles_next' = y
        /\ residual' = r
        /\ met_tol' = (met_tol \/ r < tolerance)
    /\ ym_solver' = core_profiles_prev
    /\ solver_calls' = solver_calls + 1
    /\ next_writes' = next_writes + 1
    /\ pc' = "check"
    /\ UNCHANGED <<self_core_profiles, max_iters, tolerance, iter_count,
                   convergence, core_profiles_prev, src_i, trans_i, raised,
                   eq_updates, steps>>
    /\ UNCHANGED <<snapshot, stored_at_entry, eq_at_iter>>
    /\ UNCHANGED <<bcVars, solveVars, eqVars, cacheVars>>

update_solve_raise ==
    /\ pc = "solve"
    /\ ym_solver' = core_profiles_prev
    /\ solver_calls' = solver_calls + 1
    /\ pc' = "raised"
    /\ raised' = "solver error"
    /\ UNCHANGED <<self_core_profiles, max_iters, tolerance, iter_count,
                   convergence, core_profiles_prev, core_profiles_next,
                   src_i, trans_i, residual, eq_updates, steps>>
    /\ UNCHANGED <<snapshot, stored_at_entry, next_writes, met_tol, eq_at_iter>>
    /\ UNCHANGED <<bcVars, solveVars, eqVars, cacheVars>>

(***************************************************************************)
(* Tokamak.check_converge, lines 224-225.                                  *)
(***************************************************************************)
check_converge_never(prev, next, tol) == FALSE

check_converge(prev, next, tol) == TRUE

(***************************************************************************)
(* Lines 211-212.                                                          *)
(***************************************************************************)
update_check ==
    /\ pc = "check"
    /\ convergence' =
         IF check_converge(core_profiles_prev, core_profiles_next, tolerance)
         THEN TRUE ELSE convergence
    /\ pc' = "rebind"
    /\ UNCHANGED <<self_core_profiles, max_iters, tolerance, iter_count,
                   core_profiles_prev, core_profiles_next, src_i, trans_i,
                   residual, raised, eq_updates, steps>>
    /\ UNCHANGED histVars
    /\ UNCHANGED <<bcVars, solveVars, eqVars, cacheVars>>

(***************************************************************************)
(* Line 214: core_profiles_prev = core_profiles_next                       *)
(***************************************************************************)
update_rebind ==
    /\ pc = "rebind"
    /\ core_profiles_prev' = core_profiles_next
    /\ pc' = "break"
    /\ UNCHANGED <<self_core_profiles, max_iters, tolerance, iter_count,
                   convergence, core_profiles_next, src_i, trans_i, residual,
                   raised, eq_updates, steps>>
    /\ UNCHANGED histVars
    /\ UNCHANGED <<bcVars, solveVars, eqVars, cacheVars>>

(***************************************************************************)
(* Lines 216-217: if convergence: break                                    *)
(***************************************************************************)
update_break ==
    /\ pc = "break"
    /\ pc' = IF convergence THEN "after" ELSE "for"
    /\ UNCHANGED <<self_core_profiles, max_iters, tolerance, iter_count,
                   convergence, core_profiles_prev, core_profiles_next,
                   src_i, trans_i, residual, raised, eq_updates, steps>>
    /\ UNCHANGED histVars
    /\ UNCHANGED <<bcVars, solveVars, eqVars, cacheVars>>

(***************************************************************************)
(* Lines 219-222.  The message of the RuntimeError formats iter_count,     *)
(* which is unbound when the loop body never ran.                          *)
(***************************************************************************)
StoreAlways(conv, prev, stored) == prev

StoreOnExit(conv, prev, stored) == IF conv THEN prev ELSE stored

NotConvergedError(i) ==
    IF i = Unbound THEN "UnboundLocalError: iter_count"
    ELSE "RuntimeError: Does not converge!"

update_exit ==
    /\ pc = "after"
    /\ self_core_profiles' =
         StoreOnExit(convergence, core_profiles_prev, self_core_profiles)
    /\ IF convergence
       THEN /\ pc' = "done"
            /\ raised' = raised
       ELSE /\ pc' = "raised"
            /\ raised' = NotConvergedError(iter_count)
    /\ UNCHANGED <<max_iters, tolerance, iter_count, convergence,
                   core_profiles_prev, core_profiles_next, src_i, trans_i,
                   residual, eq_updates, steps>>
    /\ UNCHANGED histVars
    /\ UNCHANGED <<bcVars, solveVars, eqVars, cacheVars>>

(***************************************************************************)
(* Claims about Tokamak.update.                                            *)
(***************************************************************************)
\* position is inside the loop body, before the solver is called
InBodyBeforeSolve == pc \in {"sources", "transport", "make_next", "solve"}

\* C1: update with iteration bound max_iters and tolerance runs the loop
\* body at most max_iters times, and never begins an iteration after one
\* whose residual was below the tolerance.
C1_BoundedAndStopsAtTolerance ==
    /\ iter_count + 1 <= max_iters
    /\ solver_calls <= max_iters
    /\ InBodyBeforeSolve => ~met_tol

\* an update that stopped on an iteration that met the tolerance while
\* iterations were left
C1_Witness ==
    /\ pc = "done"
    /\ met_tol
    /\ solver_calls = 1
    /\ max_iters > 1

\* C2: an iteration is accepted as converged if and only if its residual
\* is strictly below the tolerance; an iteration whose residual is greater
\* than or equal to the tolerance is never accepted.
C2_AcceptedIffBelowTolerance ==
    pc \in {"rebind", "break"} => (convergence <=> residual < tolerance)

\* C3: within every Picard iteration the equilibrium is rebuilt first, then
\* all core sources and core transport models are refreshed, then the solver
\* is invoked.
C3_RebuildThenRefreshThenSolve ==
    /\ ((pc = "sources" /\ src_i > 0) \/ pc \in {"transport", "make_next", "solve"})
          => eq_updates > eq_at_iter
    /\ pc = "transport" => src_i = NSources
    /\ pc \in {"make_next", "solve"} => (src_i = NSources /\ trans_i = NTransports)

\* C4: across the Picard iterations of one call the previous-slice profiles
\* stay the snapshot taken before the first iteration, and every solver call
\* receives that snapshot.
C4_PrevStaysSnapshot ==
    /\ pc \in {"for", "sources", "transport", "make_next", "solve", "check",
               "rebind", "break"} => core_profiles_prev = snapshot
    /\ (~AtRest /\ solver_calls > 0) => ym_solver = snapshot

\* the call ended because no iteration converged
NotConverged ==
    /\ pc = "raised"
    /\ raised \in {NotConvergedError(Unbound), NotConvergedError(0)}

\* C5: if no Picard iteration converges, the step is marked failed and the
\* last iterate is retained and retrievable from the orchestrator.
C5_LastIterateRetained ==
    NotConverged => self_core_profiles = core_profiles_prev

\* C6: when a time step fails, the stored core profiles are still the
\* profiles held before the failed step began.
C6_FailedStepKeepsStored ==
    [][(pc' = "raised" /\ (pc # "raised" \/ steps' # steps))
          => self_core_profiles' = stored_at_entry']_vars

\* a step that failed after the solver had been called, with stored
\* profiles that differ from the working profiles of the step
C6_Witness ==
    /\ pc = "raised"
    /\ solver_calls > 0
    /\ self_core_profiles # None
    /\ self_core_profiles = stored_at_entry
    /\ core_profiles_prev # self_core_profiles

\* C27: update called with max_iters <= 0 and with core profiles to start from
\* has, when it ends, updated no source and no transport model and called no
\* solver; it ends with
\* RuntimeError "Does not converge!" as an exhausted loop does, and leaves
\* the stored core profiles as they were.
C27_ZeroItersRuntimeError ==
    [][(update_exit /\ max_iters <= 0) =>
         /\ src_i' = 0
         /\ trans_i' = 0
         /\ solver_calls' = 0
         /\ pc' = "raised"
         /\ raised' = "RuntimeError: Does not converge!"
         /\ self_core_profiles' = self_core_profiles]_vars

Next ==
    \/ core_profiles
    \/ equilibrium_update
    \/ update_enter
    \/ update_for
    \/ update_sources
    \/ update_transport
    \/ update_make_next
    \/ update_solve
    \/ update_solve_raise
    \/ update_check
    \/ update_rebind
    \/ update_break
    \/ update_exit

Spec == Init /\ [][Next]_vars

(***************************************************************************)
(* Specification of the boundary-condition functions: a call is drawn and  *)
(* the function of its equation kind is applied to it.                     *)
(***************************************************************************)
TokRest == TokInit

BcInit ==
    /\ TokRest
    /\ SolveRest
    /\ EqRest
    /\ CacheRest
    /\ bcq \in BcQueries
    /\ bcr = Pending

bc_call ==
    /\ bcr = Pending
    /\ bcr' = BcApply(bcq.kind, bcq.ya, bcq.ga, bcq.yb, bcq.gb, bcq.bc)
    /\ UNCHANGED bcq
    /\ UNCHANGED <<tokVars, histVars, solveVars, eqVars, cacheVars>>

\* C10: each of the types 1 to 6 is accepted at the outer boundary by every
\* equation kind: the boundary-condition function returns a residual and
\* raises no error.
C10_UniformTaxonomy ==
    bcr # Pending => bcr.err = "none"

\* C11: for every equation kind and every boundary-condition type chosen at
\* the outer boundary, the boundary-condition function returns a residual
\* whose axis entry is exactly g(0), the flux handed in for the axis.
C11_AxisEntryIsFlux ==
    bcr # Pending => (bcr.err = "none" /\ bcr.axis = bcq.ga)

BcNext == bc_call

SpecBC == BcInit /\ [][BcNext]_vars

(***************************************************************************)
(* Specification of one call of solve: the arguments are drawn, then the   *)
(* steps of solve follow.                                                  *)
(***************************************************************************)
SolveInit ==
    /\ TokRest
    /\ BcRest
    /\ EqRest
    /\ CacheRest
    /\ spc = "Idle"
    /\ quasi_neutral \in QuasiNeutralArgs
    /\ dt \in DtArgs
    /\ ions \in IonLists
    /\ bcs \in BcIndexSets
    /\ glob = NoGlobals
    /\ sys = EmptySystem
    /\ sol = NoSol
    /\ evals = NoEvals
    /\ slice_next = NoSlice
    /\ s_raised = "none"
    /\ strace = <<"Idle">>

\* lines 703-711
solve_bind ==
    /\ spc = "Idle"
    /\ glob' = update_global_variable(dt)
    /\ spc' = "CoefficientsBound"
    /\ strace' = Append(strace, "CoefficientsBound")
    /\ UNCHANGED <<quasi_neutral, dt, ions, bcs, sys, sol, evals, slice_next,
                   s_raised>>
    /\ UNCHANGED <<tokVars, histVars, bcVars, eqVars, cacheVars>>

\* lines 713-726
solve_assemble ==
    /\ spc = "CoefficientsBound"
    /\ LET passed == IF quasi_neutral = "electrons"
                     THEN ElectronsCallKw ELSE IonCallKw
       IN IF MissingKw(RequiredKw, passed) # {}
          THEN /\ sys' = sys
               /\ spc' = "Raised"
               /\ s_raised' = "TypeError: missing keyword-only argument"
          ELSE /\ sys' = IF quasi_neutral = "electrons"
                         THEN create_solver_electrons(ions)
                         ELSE create_solver_ion(ions)
               /\ spc' = "SystemAssembled"
               /\ s_raised' = s_raised
    /\ strace' = Append(strace, spc')
    /\ UNCHANGED <<quasi_neutral, dt, ions, bcs, glob, sol, evals, slice_next>>
    /\ UNCHANGED <<tokVars, histVars, bcVars, eqVars, cacheVars>>

\* lines 728-735: func and bc_func are defined and solve_bvp is entered
solve_bvp_enter ==
    /\ spc = "SystemAssembled"
    /\ spc' = "Solving"
    /\ strace' = Append(strace, "Solving")
    /\ UNCHANGED <<quasi_neutral, dt, ions, bcs, glob, sys, sol, evals,
                   slice_next, s_raised>>
    /\ UNCHANGED <<tokVars, histVars, bcVars, eqVars, cacheVars>>

\* line 735: solve_bvp evaluates func and then bc_func on the initial guess,
\* as scipy.integrate.solve_bvp does, and returns its result; an error of
\* either function leaves solve_bvp and solve
solve_bvp ==
    /\ spc = "Solving"
    /\ LET f == func(sys.eq_list, 1)
           b == IF f.err = "none" THEN bc_func(sys.bc_list, bcs, 1) ELSE NoRows
       IN /\ evals' = [func |-> f, bc |-> b,
                        dg |-> IF f.err # "none" THEN <<>>
                               ELSE [k \in 1 .. Len(sys.eq_list) |->
                                       transp_terms(sys.eq_list[k].kind,
                                                    glob.inv_tau)]]
          /\ IF f.err # "none" \/ b.err # "none"
             THEN /\ spc' = "Raised"
                  /\ s_raised' = IF f.err # "none" THEN f.err ELSE b.err
                  /\ sol' = sol
             ELSE /\ \E ok \in BOOLEAN, r \in Residuals,
                          x \in {MeshPrev, MeshRefined} :
                       sol' = [success |-> ok, residual |-> r, x |-> x]
                  /\ spc' = IF sol'.success THEN "Converged" ELSE "Failed"
                  /\ s_raised' = s_raised
    /\ strace' = Append(strace, spc')
    /\ UNCHANGED <<quasi_neutral, dt, ions, bcs, glob, sys, slice_next>>
    /\ UNCHANGED <<tokVars, histVars, bcVars, eqVars, cacheVars>>

\* lines 761-763: profiles_1d_next[var_id] = sol.y[idx*2], and its flux
WriteBack(vl) ==
    [k \in 1 .. Len(vl) |->
        [var |-> vl[k], row |-> (k - 1) * 2, flux_row |-> (k - 1) * 2 + 1]]

\* lines 749-755 and 761-763: the ion list of the new time slice.  Entry k
\* is built for the k-th ion of the previous profiles from the species table
\* atoms, z_ion_1d and is_impurity; profiles names what the write-back loop
\* then stores under ["ion", {"label": ...}, name]
SliceIons(l, vl) ==
    [k \in 1 .. Len(l) |->
        [label |-> l[k].label,
         is_impurity |-> l[k].is_impurity,
         profiles |-> {vl[j][3] : j \in {i \in 1 .. Len(vl) :
                                           /\ Len(vl[i]) = 3
                                           /\ vl[i][1] = "ion"
                                           /\ vl[i][2] = l[k].label}}]]

\* lines 737-770: the new time slice is built and returned
solve_write_back ==
    /\ spc \in {"Converged", "Failed"}
    /\ LET g == remesh(GridEq, Str("rho_tor_norm"), Arr(sol.x))
       IN IF g.err # "none"
          THEN /\ spc' = "Raised"
               /\ s_raised' = g.err
               /\ slice_next' = slice_next
          ELSE /\ spc' = "Returned"
               /\ s_raised' = s_raised
               /\ slice_next' = [grid |-> g.grid, vars |-> WriteBack(sys.var_list),
                                  ion |-> SliceIons(ions, sys.var_list)]
    /\ strace' = Append(strace, spc')
    /\ UNCHANGED <<quasi_neutral, dt, ions, bcs, glob, sys, sol, evals>>
    /\ UNCHANGED <<tokVars, histVars, bcVars, eqVars, cacheVars>>

SolveFinished == spc \in {"Returned", "Raised"}

(***************************************************************************)
(* Claims about solve.                                                     *)
(***************************************************************************)
\* C8: during one solver invocation the solver passes through Idle,
\* CoefficientsBound, SystemAssembled and Solving in exactly that order and
\* ends in exactly one of Converged or Failed; a Failed outcome returns
\* control to the caller.
C8_SolverStateMachine ==
    SolveFinished =>
        /\ Len(strace) >= 5
        /\ SubSeq(strace, 1, 4) =
             <<"Idle", "CoefficientsBound", "SystemAssembled", "Solving">>
        /\ strace[5] \in {"Converged", "Failed"}
        /\ (strace[5] = "Failed" => spc = "Returned")

\* var is a variable of the assembled system
InSystem(var) == \E k \in 1 .. Len(sys.var_list) : sys.var_list[k] = var

\* the new time slice holds var with the profile of the previous time slice
CarriedOver(var) ==
    \E k \in 1 .. Len(slice_next.vars) :
        slice_next.vars[k].var = var /\ slice_next.vars[k].row = None

\* an equation with boundary condition type t is not solved
NotSolved(t, var) ==
    t = 6 =>
        /\ Len(sys.var_list) > 0 => ~InSystem(var)
        /\ SolveFinished => (spc = "Returned" /\ CarriedOver(var))

\* C9: when the boundary condition of an equation has type 6, the solve
\* completes normally with that equation's rows absent from the assembled
\* system, and the profile in the new time slice equals the previous one.
C9_Type6NotSolved ==
    /\ NotSolved(bcs.current, <<"psi">>)
    /\ NotSolved(bcs.e_particles, <<"electrons", "density">>)
    /\ NotSolved(bcs.e_energy, <<"electrons", "temperature">>)
    /\ \A i \in 1 .. Len(ions) :
          ~ions[i].is_impurity =>
              NotSolved(bcs.ion_energy, <<"ion", ions[i].label, "temperature">>)

\* solve_bvp has evaluated func and bc_func of the assembled system
BvpEvaluated ==
    /\ spc # "Solving"
    /\ \E k \in 1 .. Len(strace) : strace[k] = "Solving"

\* C12: for an assembled system with N_eq equations the residual function
\* returns exactly 2*N_eq rows, the boundary-residual function returns
\* exactly 2*N_eq entries and the initial guess has exactly 2*N_eq rows.
C12_TwoRowsPerEquation ==
    BvpEvaluated =>
        /\ evals.func.err = "none"
        /\ Len(evals.func.rows) = 2 * Len(sys.eq_list)
        /\ evals.bc.err = "none"
        /\ Len(evals.bc.rows) = 2 * Len(sys.eq_list)
        /\ Len(sys.Y0) = 2 * Len(sys.eq_list)

\* C13: once solve_bvp has returned a mesh, solve returns a new time slice
\* whose rho_tor_norm is that mesh and which holds every solved profile.
C13_SliceOnReturnedMesh ==
    (SolveFinished /\ Len(sol.x) > 0) =>
        /\ spc = "Returned"
        /\ slice_next.grid.axes.rho_tor_norm = sol.x
        /\ \A k \in 1 .. Len(sys.var_list) :
              \E j \in 1 .. Len(slice_next.vars) :
                  slice_next.vars[j].var = sys.var_list[k]

\* C14: with a quasi_neutral other than "electrons", solve assembles and
\* solves a system with one density equation for each ion that is no
\* impurity and no equation for the electron density.
C14_IonLayoutAssembled ==
    (quasi_neutral # "electrons" /\ spc \notin {"Idle", "CoefficientsBound"}) =>
        /\ Len(sys.var_list) > 0
        /\ ~InSystem(<<"electrons", "density">>)
        /\ \A i \in 1 .. Len(ions) :
              ~ions[i].is_impurity => InSystem(<<"ion", ions[i].label, "density">>)

RECURSIVE IonChargeTimesZTotal(_, _, _, _)
\* Z_total times the sum over the ions that are no impurity of z times the
\* density line 475 gives the ion: _n_ratio*(Y[_ne_idx] - _n_imp(x)) with
\* _n_ratio = ion.z/Z_total
IonChargeTimesZTotal(el, k, ne, nimp) ==
    IF k > Len(el) THEN 0
    ELSE (IF el[k].kind = "energy" /\ el[k].ym[1] = "ion"
          THEN el[k].density.z * (el[k].density.z * (ne - nimp))
          ELSE 0) + IonChargeTimesZTotal(el, k + 1, ne, nimp)

\* the ions' charge, impurities included, balances the electron density ne
\* (both sides multiplied by Z_total)
QuasiNeutralAt(ne, nimp) ==
    IonChargeTimesZTotal(sys.eq_list, 1, ne, nimp) + SumZ(ions, 1) * nimp
        = SumZ(ions, 1) * ne

\* C15: an electrons-primary solve returns, and with the densities it gives
\* the ions the electron density equals the sum of z times n over all ions,
\* whatever the charge numbers of the ions.
C15_ChargeNeutralAfterSolve ==
    (quasi_neutral = "electrons" /\ SolveFinished) =>
        /\ spc = "Returned"
        /\ \A ne \in Values, nimp \in Values :
              nimp <= ne => QuasiNeutralAt(ne, nimp)

\* g is the grid remesh(new_axis, label) is to give from grid: the coordinate
\* label is new_axis, the other arrays are the ones of grid resampled from
\* its coordinate label onto new_axis, and the scalars are those of grid
IsRemeshOf(g, grid, new_axis, label) ==
    /\ g.psi_axis = grid.psi_axis
    /\ g.psi_boundary = grid.psi_boundary
    /\ g.rho_tor_boundary = grid.rho_tor_boundary
    /\ DOMAIN g.axes = DOMAIN grid.axes
    /\ g.axes[label] = new_axis
    /\ \A a \in DOMAIN grid.axes \ {label} :
          g.axes[a] = Resample(grid.axes[label], grid.axes[a], new_axis)

\* C23: remesh(new_axis, label) gives a grid whose coordinate label is
\* new_axis, whose other arrays are resampled onto it and whose psi_axis,
\* psi_boundary and rho_tor_boundary are kept; solve, which calls it with the
\* mesh of the solution and "rho_tor_norm", obtains such a grid.
C23_RemeshContract ==
    (SolveFinished /\ Len(sol.x) > 0) =>
        /\ s_raised = "none"
        /\ IsRemeshOf(slice_next.grid, GridEq, sol.x, "rho_tor_norm")

\* solve_bvp gave up: its result has success = False
EndedFailed == \E k \in DOMAIN strace : strace[k] = "Failed"

\* C25: the node-count cap handed to solve_bvp lies between 250 and 1000 by
\* default, and a solve whose solve_bvp ended Failed still returns to its
\* caller the iterate solve_bvp found: the new time slice on the mesh sol.x
\* with one entry per variable of var_list.
C25_FailedHandsBackIterate ==
    /\ max_nodes \in 250 .. 1000
    /\ (SolveFinished /\ EndedFailed) =>
           /\ spc = "Returned"
           /\ s_raised = "none"
           /\ slice_next.grid.axes.rho_tor_norm = sol.x
           /\ Len(slice_next.vars) = Len(sys.var_list)

\* an equation of the system is written back under the ion of this label
EvolvedIon(label) ==
    \E k \in 1 .. Len(sys.var_list) :
        /\ Len(sys.var_list[k]) = 3
        /\ sys.var_list[k][1] = "ion"
        /\ sys.var_list[k][2] = label

\* C26: in either layout no equation is assembled for an impurity, and the
\* time slice solve returns holds, for each impurity, its density of the
\* previous time slice.
C26_ImpuritiesPrescribed ==
    \A i \in 1 .. Len(ions) :
        ions[i].is_impurity =>
            /\ ~EvolvedIon(ions[i].label)
            /\ SolveFinished =>
                   /\ spc = "Returned"
                   /\ Len(slice_next.ion) >= i
                   /\ slice_next.ion[i].label = ions[i].label
                   /\ "density" \in slice_next.ion[i].profiles

\* the k-th equation of system s is a density equation built from the ion's
\* own previous density, transport coefficients, source and boundary condition
OwnDensityEquation(s, k) ==
    LET label == s.var_list[k][2]
    IN /\ s.eq_list[k].ym = <<"ion", label, "density">>
       /\ s.eq_list[k].coeff = <<"ion", label, "particles">>
       /\ s.eq_list[k].source = <<"ion", label, "particles">>
       /\ s.bc_list[k].bc = <<"ion", label, "particles">>

\* C28: in the ion-primary layout the density equation assembled for an ion
\* that is no impurity uses that ion's own previous density, particle
\* transport coefficients, particle source and boundary condition.
C28_IonDensityFromOwnData ==
    (quasi_neutral # "electrons" /\ spc \notin {"Idle", "CoefficientsBound"}) =>
        LET s == create_solver_ion(ions)
        IN \A k \in 1 .. Len(s.var_list) :
              (Len(s.var_list[k]) = 3 /\ s.var_list[k][1] = "ion"
                  /\ s.var_list[k][3] = "density")
              => OwnDensityEquation(s, k)

\* the time step is zero or absent
StepZero == dt = None \/ isclose(dt, 0)

\* C29: with a time step that is absent (dt None, no previous equilibrium) or
\* zero the inverse time step is 0 and was obtained without a division by
\* zero, and no equation evaluated by solve_bvp holds the time-derivative
\* term with the previous profile.
C29_SteadyStateWithoutTimeTerms ==
    (StepZero /\ spc # "Idle") =>
        /\ glob.inv_tau[2] # 0
        /\ glob.inv_tau[1] = 0
        /\ \A k \in 1 .. Len(evals.dg) : TimeDerivative \notin evals.dg[k]

\* a current, a particle and an energy equation were evaluated with a zero or
\* absent time step
C29_Witness ==
    /\ StepZero
    /\ spc \in {"Converged", "Failed"}
    /\ \A kind \in {"current", "particle", "energy"} :
          \E k \in 1 .. Len(evals.dg) : sys.eq_list[k].kind = kind

SolveNext ==
    \/ solve_bind
    \/ solve_assemble
    \/ solve_bvp_enter
    \/ solve_bvp
    \/ solve_write_back

SpecSolve == SolveInit /\ [][SolveNext]_vars

(***************************************************************************)
(* Specification of the flux-surface geometry: a class, a search result    *)
(* and a member are drawn, and the member is called.                       *)
(***************************************************************************)
EqInit ==
    /\ TokRest
    /\ BcRest
    /\ SolveRest
    /\ CacheRest
    /\ crit = NotCached
    /\ eres = EPending
    /\ fs = NoGenerator
    /\ \/ /\ eop \in EqMembers
          /\ impl \in Impls
          /\ found \in FoundLists
          /\ o_point = OTrue
          /\ psi = <<>>
          /\ ctor = NoCtor
       \/ /\ eop = "find_surface"
          /\ impl \in Impls
          /\ found \in FoundScenarios
          /\ o_point \in OPointArgs
          /\ psi \in PsiArgs
          /\ ctor = NoCtor
       \/ /\ eop = "dvolume_dpsi"
          /\ impl \in Impls
          /\ found \in FoundScenarios
          /\ o_point = OTrue
          /\ psi \in PsiNormArgs
          /\ ctor = NoCtor
       \/ /\ eop = "create_surface"
          /\ impl = ModulesImpl
          /\ found \in FoundLists
          /\ o_point = OTrue
          /\ psi \in PsiNormArgs
          /\ ctor = NoCtor
       \/ /\ eop = "__init__"
          /\ impl \in Impls
          /\ found = <<>>
          /\ o_point = OTrue
          /\ psi = <<>>
          /\ ctor \in CtorArgs

\* the cache after self.critical_points gave c
Cached(c) == IF c.err = "none" THEN c ELSE crit

get_critical_points ==
    /\ eop = "critical_points"
    /\ eres.err = "pending"
    /\ LET c == cached_critical_points(crit, found, impl)
       IN /\ crit' = Cached(c)
          /\ eres' = [err |-> c.err, value |-> <<>>]
    /\ UNCHANGED <<impl, found, eop, o_point, psi, ctor, fs>>
    /\ UNCHANGED <<tokVars, histVars, bcVars, solveVars, cacheVars>>

magnetic_axis ==
    /\ eop = "magnetic_axis"
    /\ eres.err = "pending"
    /\ LET c == cached_critical_points(crit, found, impl)
       IN /\ crit' = Cached(c)
          /\ eres' = magnetic_axis_of(c)
    /\ UNCHANGED <<impl, found, eop, o_point, psi, ctor, fs>>
    /\ UNCHANGED <<tokVars, histVars, bcVars, solveVars, cacheVars>>

psi_axis ==
    /\ eop = "psi_axis"
    /\ eres.err = "pending"
    /\ LET c == cached_critical_points(crit, found, impl)
       IN /\ crit' = Cached(c)
          /\ eres' = psi_axis_of(c)
    /\ UNCHANGED <<impl, found, eop, o_point, psi, ctor, fs>>
    /\ UNCHANGED <<tokVars, histVars, bcVars, solveVars, cacheVars>>

psi_boundary ==
    /\ eop = "psi_boundary"
    /\ eres.err = "pending"
    /\ LET c == cached_critical_points(crit, found, impl)
       IN /\ crit' = Cached(c)
          /\ eres' = psi_boundary_of(c)
    /\ UNCHANGED <<impl, found, eop, o_point, psi, ctor, fs>>
    /\ UNCHANGED <<tokVars, histVars, bcVars, solveVars, cacheVars>>

\* the state of the generator after its body ended with error e ("none":
\* the levels are exhausted)
Ended(g, e) ==
    [g EXCEPT !.stage = IF e = "none" THEN "exhausted" ELSE "raised"]

\* lines 301-311: the first next() runs the body up to the loop over levels
find_surface_start ==
    /\ eop \in {"find_surface", "dvolume_dpsi"}
    /\ fs.stage = "new"
    /\ IF o_point.t = "True"
       THEN LET c == cached_critical_points(crit, found, impl)
            IN /\ crit' = Cached(c)
               /\ IF c.err # "none"
                  THEN /\ fs' = Ended(fs, c.err)
                       /\ eres' = [err |-> c.err, value |-> <<>>]
                  ELSE IF Len(c.opoints) = 0
                  THEN /\ fs' = Ended(fs, "RuntimeError: O-point is not defined!")
                       /\ eres' = [err |-> "RuntimeError: O-point is not defined!",
                                   value |-> <<>>]
                  ELSE IF eop = "dvolume_dpsi" /\ Len(c.xpoints) = 0
                  THEN /\ fs' = Ended(fs, "ValueError: No x-point")
                       /\ eres' = [err |-> "ValueError: No x-point", value |-> <<>>]
                  ELSE /\ fs' = [fs EXCEPT
                                   !.stage = IF Len(psi) = 0 THEN "exhausted"
                                             ELSE "running",
                                   !.o = [t |-> "OXPoint", p |-> c.opoints[1]],
                                   !.has_x = Len(c.xpoints) > 0,
                                   !.x = IF Len(c.xpoints) > 0 THEN c.xpoints[1]
                                         ELSE NoXPoint]
                       /\ eres' = IF Len(psi) = 0 /\ eop = "find_surface"
                                  THEN [err |-> "none", value |-> <<>>]
                                  ELSE eres
       ELSE /\ crit' = crit
            /\ fs' = [fs EXCEPT
                        !.stage = IF Len(psi) = 0 THEN "exhausted" ELSE "running",
                        !.o = o_point]
            /\ eres' = IF Len(psi) = 0 THEN [err |-> "none", value |-> <<>>]
                       ELSE eres
    /\ UNCHANGED <<impl, found, eop, o_point, psi, ctor>>
    /\ UNCHANGED <<tokVars, histVars, bcVars, solveVars, cacheVars>>

\* lines 315-384: the next level is taken and its results are yielded
find_surface_level ==
    /\ eop \in {"find_surface", "dvolume_dpsi"}
    /\ fs.stage = "running"
    /\ LET lv == IF eop = "dvolume_dpsi" THEN by_psi_norm(psi, crit)[fs.k + 1]
                 ELSE psi[fs.k + 1]
           r == IF fs.o.t = "None" THEN level_contours(lv)
                ELSE level_surface(lv, fs.o.p, fs.has_x, fs.x, fs.theta_bound)
           last == fs.k + 1 = Len(psi)
       IN /\ fs' = [fs EXCEPT
                      !.stage = IF r.err # "none" THEN "raised"
                                ELSE IF last THEN "exhausted" ELSE "running",
                      !.k = fs.k + 1,
                      !.out = fs.out \o r.out,
                      !.theta_bound = fs.theta_bound
                                      \/ (fs.o.t # "None" /\ Len(lv.col) > 0)]
          /\ eres' = IF r.err # "none" THEN [err |-> r.err, value |-> <<>>]
                     ELSE IF last /\ eop = "find_surface"
                     THEN [err |-> "none", value |-> <<>>]
                     ELSE eres
    /\ UNCHANGED <<impl, found, eop, o_point, psi, ctor, crit>>
    /\ UNCHANGED <<tokVars, histVars, bcVars, solveVars, cacheVars>>

\* dvolume_dpsi, lines 622-628 (eq_analyze.py lines 522-523): the surface
\* integral of 1 over the surfaces of the mesh.  The mesh, lines 542-559,
\* takes its surfaces from find_surface_by_psi_norm with o_point=True, which
\* reads psi_boundary and psi_axis and runs the generator find_surface: the
\* steps find_surface_start and find_surface_level, then this one
dvolume_dpsi ==
    /\ eop = "dvolume_dpsi"
    /\ fs.stage = "exhausted"
    /\ eres.err = "pending"
    /\ eres' = surface_integral(psi, fs.out, impl)
    /\ UNCHANGED <<impl, found, eop, o_point, psi, ctor, crit, fs>>
    /\ UNCHANGED <<tokVars, histVars, bcVars, solveVars, cacheVars>>

\* create_surface(psi_norm) of modules/transport/MagneticCoordSystem.py
create_surface ==
    /\ eop = "create_surface"
    /\ eres.err = "pending"
    /\ LET c == cached_critical_points(crit, found, impl)
       IN /\ crit' = Cached(c)
          /\ eres' = create_surface_of(psi, c)
    /\ UNCHANGED <<impl, found, eop, o_point, psi, ctor, fs>>
    /\ UNCHANGED <<tokVars, histVars, bcVars, solveVars, cacheVars>>

\* __init__ of the class impl
build ==
    /\ eop = "__init__"
    /\ eres.err = "pending"
    /\ eres' = init_of(ctor, impl)
    /\ UNCHANGED <<impl, found, eop, o_point, psi, ctor, crit, fs>>
    /\ UNCHANGED <<tokVars, histVars, bcVars, solveVars, cacheVars>>

\* the property fpol is read on the object that was built
get_fpol ==
    /\ eop = "__init__"
    /\ eres.err = "none"
    /\ Len(eres.value) = 3
    /\ eres' = [eres EXCEPT !.value =
                   Append(eres.value,
                          fpol_of(eres.value[1], eres.value[2], eres.value[3]))]
    /\ UNCHANGED <<impl, found, eop, o_point, psi, ctor, crit, fs>>
    /\ UNCHANGED <<tokVars, histVars, bcVars, solveVars, cacheVars>>

(***************************************************************************)
(* Claims about the critical points and the flux surfaces.                 *)
(***************************************************************************)
\* C16: every point of the O-point list has det(Hess psi) > 0 and every
\* point of the X-point list has det(Hess psi) < 0.
C16_SignOfHessian ==
    crit.err = "none" =>
        /\ \A i \in 1 .. Len(crit.opoints) : crit.opoints[i].D > 0
        /\ \A i \in 1 .. Len(crit.xpoints) : crit.xpoints[i].D < 0

\* the squared distance of x to the O-point of the magnetic axis
ToAxis(x) == Dist2(x, crit.opoints[1].r, crit.opoints[1].z)

\* C17: the X-point list is ordered by the geometric distance to the
\* O-point of the magnetic axis, and psi_boundary is the psi of the X-point
\* nearest to that O-point.
C17_XPointsByDistance ==
    (crit.err = "none" /\ Len(crit.xpoints) > 1) =>
        /\ \A i \in 1 .. Len(crit.xpoints) - 1 :
              ToAxis(crit.xpoints[i]) <= ToAxis(crit.xpoints[i + 1])
        /\ (eop = "psi_boundary" /\ eres.err = "none") =>
              \E i \in 1 .. Len(crit.xpoints) :
                  /\ eres.value[1] = crit.xpoints[i].psi
                  /\ \A j \in 1 .. Len(crit.xpoints) :
                        ToAxis(crit.xpoints[i]) <= ToAxis(crit.xpoints[j])

\* a member that needs the magnetic axis has been called and has ended
AxisMemberEnded ==
    /\ eres.err # "pending"
    /\ \/ eop \in EqMembers
       \/ eop = "find_surface" /\ o_point.t = "True"

\* C18: if the search finds no O-point, building the critical-point lists
\* fails with an error: nothing is cached, and magnetic_axis, psi_axis and
\* find_surface end with that error and give no axis and no surface.
C18_NoOPointIsFatal ==
    (Len(Extrema(found)) = 0 /\ AxisMemberEnded) =>
        /\ eres.err = "RuntimeError: Can not find o-point!"
        /\ eres.value = <<>>
        /\ crit = NotCached
        /\ fs.out = <<>>

\* find_surface was asked for two levels that have a closed contour around
\* the O-point, the search found X-points only, and the call failed
C18_Witness ==
    /\ eop = "find_surface"
    /\ found = <<X1>>
    /\ Len(psi) = 2
    /\ \A k \in 1 .. Len(psi) : psi[k].col = <<RingTrace(2, 1)>>
    /\ fs.stage = "raised"
    /\ eres.err = "RuntimeError: Can not find o-point!"

\* find_surface ran with an O-point and has ended
SurfacesEnded ==
    /\ eop = "find_surface"
    /\ fs.o.t = "OXPoint"
    /\ fs.stage \in {"exhausted", "raised"}

\* the nodes of a contour, as a set
Nodes(points) == {points[i] : i \in 1 .. Len(points)}

\* res is the one closed contour of the level lv that encloses the O-point
\* (the O-point itself for the level of the O-point)
IsSurfaceOf(res, lv) ==
    /\ res.level = lv.level
    /\ \/ res.kind = "point" /\ lv.level = fs.o.p.psi
       \/ /\ res.kind = "curve"
          /\ res.points[1] = res.points[Len(res.points)]
          /\ \E j \in 1 .. Len(lv.col) :
                /\ ~IsOpenOrOutside(ThetaOf(lv.col[j], fs.o.p))
                /\ EndsMeet(ThetaOf(lv.col[j], fs.o.p))
                /\ Nodes(res.points) = Nodes(lv.col[j])

\* C19: with an O-point, find_surface given N levels returns exactly N
\* results, in the order of the levels, each the closed contour of its
\* level that encloses the O-point.
C19_OneSurfacePerLevel ==
    SurfacesEnded =>
        /\ fs.stage = "exhausted"
        /\ Len(fs.out) = Len(psi)
        /\ \A k \in 1 .. Len(fs.out) : IsSurfaceOf(fs.out[k], psi[k])

StrictlyIncreasing(t) == \A i \in 1 .. Len(t) - 1 : t[i] < t[i + 1]

\* C20: every closed surface find_surface returns with an O-point has a
\* strictly monotone theta and the same first and last point, whatever the
\* node the contour was traced from and whatever its direction; no contour
\* is refused for its starting node or direction.
C20_MonotoneAndClosed ==
    (eop = "find_surface" /\ fs.o.t = "OXPoint") =>
        /\ \A k \in 1 .. Len(fs.out) :
              fs.out[k].kind = "curve" =>
                  /\ StrictlyIncreasing(fs.out[k].theta)
                  /\ fs.out[k].points[1] = fs.out[k].points[Len(fs.out[k].points)]
        /\ eres.err # "ValueError: Can not convert 'u' to be strictly increased!"

\* the O-point of the magnetic axis as a degenerate surface
AxisPoint == Point(<<<<crit.opoints[1].r, crit.opoints[1].z>>>>)

\* C21: the surface asked for at psi_norm = 0, the level of psi at the
\* magnetic axis, is the O-point itself, from find_surface and from
\* create_surface, and the surface integral takes the axis value c0 on it
\* and not the quadrature along a contour.
C21_AxisSurfaceIsOPoint ==
    /\ (SurfacesEnded /\ fs.stage = "exhausted") =>
          \A k \in 1 .. Len(fs.out) :
              psi[k].level = fs.o.p.psi =>
                  /\ fs.out[k].kind = "point"
                  /\ fs.out[k].points = <<<<fs.o.p.r, fs.o.p.z>>>>
    /\ (eop = "create_surface" /\ eres.err = "none") =>
          \A k \in 1 .. Len(psi) :
              psi[k].level = 0 => eres.value[k] = AxisPoint
    /\ (eop = "dvolume_dpsi" /\ fs.stage = "exhausted" /\ eres.err # "pending") =>
          /\ eres.err = "none"
          /\ \A k \in 1 .. Len(psi) :
                psi[k].level = 0 =>
                    /\ eres.value[k].by = "c0"
                    /\ eres.value[k].axis.kind = "point"

\* the knots the supplied fpol lies on: its own for a Function,
\* np.linspace(0, 1.0, len) for an array
SuppliedKnots(a) == IF a.t = "Function" THEN a.x ELSE linspace(0, 100, Len(a.y))

\* C22: when the supplied fpol lies on knots other than the psi_norm of the
\* object (another number of points, for one), the object is built all the
\* same and its fpol is the supplied one resampled onto psi_norm.
C22_FpolResampled ==
    (eop = "__init__" /\ eres.err # "pending"
        /\ ctor.fpol.t \in {"array", "Function"}
        /\ init_psi_norm(ctor.psi_norm, impl).err = "none"
        /\ SuppliedKnots(ctor.fpol) # init_psi_norm(ctor.psi_norm, impl).v) =>
            /\ eres.err = "none"
            /\ eres.value[1] = init_psi_norm(ctor.psi_norm, impl).v
            /\ Len(eres.value) = 4 =>
                  eres.value[4] = Resample(SuppliedKnots(ctor.fpol), ctor.fpol.y,
                                           eres.value[1])

EqNext ==
    \/ get_critical_points
    \/ magnetic_axis
    \/ psi_axis
    \/ psi_boundary
    \/ find_surface_start
    \/ find_surface_level
    \/ dvolume_dpsi
    \/ create_surface
    \/ build
    \/ get_fpol

SpecEq == EqInit /\ [][EqNext]_vars

(***************************************************************************)
(* Specification of the caches of an Equilibrium: cached properties are    *)
(* read and the equilibrium is rebuilt, in any order.                      *)
(***************************************************************************)
CacheInit ==
    /\ TokRest
    /\ BcRest
    /\ SolveRest
    /\ EqRest
    /\ CacheRest

\* self.<item> is read
cached_get ==
    /\ \E item \in CachedItems : cached' = Fetch(cached, item, generation)
    /\ UNCHANGED <<generation, c_raised>>
    /\ UNCHANGED <<tokVars, histVars, bcVars, solveVars, eqVars>>

\* a rebuild: the equilibrium holds a new psi(R, Z), and update, lines 78-84,
\* calls update_cache
Equilibrium_update ==
    /\ generation <= MaxRebuilds
    /\ generation' = generation + 1
    /\ \E strict \in BOOLEAN :
          LET r == update_cache(cached, generation + 1, strict)
          IN /\ cached' = r.cache
             /\ c_raised' = r.err
    /\ UNCHANGED <<tokVars, histVars, bcVars, solveVars, eqVars>>

\* the cached data the flux surfaces give
FluxDerived == {"coordinate_system", "profiles_1d", "global_quantities", "boundary"}

\* C24: after every rebuild the coordinate system, the 1-D profiles, the
\* global quantities and the boundary that are cached were computed from the
\* psi of that rebuild, none from an earlier one, and the rebuild did not
\* fail, whatever had been computed before it.
C24_CachesInvalidated ==
    generation > 1 =>
        /\ c_raised = "none"
        /\ \A i \in FluxDerived : cached[i] \in {0, generation}

CacheNext ==
    \/ cached_get
    \/ Equilibrium_update

SpecCache == CacheInit /\ [][CacheNext]_vars

(***************************************************************************)
(* Specification of one call of create_solver_electrons (lines 372-493)    *)
(* or create_solver_ion (lines 495-622) with the keywords they declare.    *)
(***************************************************************************)
AssembleInit ==
    /\ TokRest
    /\ BcRest
    /\ EqRest
    /\ CacheRest
    /\ spc = "Idle"
    /\ quasi_neutral \in QuasiNeutralArgs
    /\ dt = None
    /\ ions \in IonLists
    /\ bcs \in BcIndexSets
    /\ glob = NoGlobals
    /\ sys = EmptySystem
    /\ sol = NoSol
    /\ evals = NoEvals
    /\ slice_next = NoSlice
    /\ s_raised = "none"
    /\ strace = <<"Idle">>

create_solver ==
    /\ spc = "Idle"
    /\ sys' = IF quasi_neutral = "electrons"
              THEN create_solver_electrons(ions)
              ELSE create_solver_ion(ions)
    /\ spc' = "SystemAssembled"
    /\ strace' = Append(strace, "SystemAssembled")
    /\ UNCHANGED <<quasi_neutral, dt, ions, bcs, glob, sol, evals, slice_next,
                   s_raised>>
    /\ UNCHANGED <<tokVars, histVars, bcVars, eqVars, cacheVars>>

\* C30: in both layouts the k-th entry of var_list, counted from 0, has the
\* rows 2k and 2k+1: the k-th equation and the k-th boundary condition
\* captured the row offset 2k, Y0 has two rows for each variable, and the
\* write-back loop reads for the k-th variable the rows 2k and 2k+1.
C30_RowOffsetsAligned ==
    spc = "SystemAssembled" =>
        /\ Len(sys.eq_list) = Len(sys.var_list)
        /\ Len(sys.bc_list) = Len(sys.var_list)
        /\ Len(sys.Y0) = 2 * Len(sys.var_list)
        /\ \A k \in 1 .. Len(sys.var_list) :
              /\ sys.eq_list[k].idx = 2 * (k - 1)
              /\ sys.bc_list[k].idx = 2 * (k - 1)
              /\ WriteBack(sys.var_list)[k] =
                     [var |-> sys.var_list[k],
                      row |-> sys.eq_list[k].idx,
                      flux_row |-> sys.eq_list[k].idx + 1]

\* the ion-primary layout assembled for two ions that are no impurities
C30_Witness ==
    /\ spc = "SystemAssembled"
    /\ quasi_neutral # "electrons"
    /\ Len(sys.var_list) >= 6

AssembleNext == create_solver

SpecAssemble == AssembleInit /\ [][AssembleNext]_vars

====
